---- MODULE Spec2Model ----
(***************************************************************************)
(* Query routing, caching and fallback of the GA+ analytics assistant.     *)
(*                                                                         *)
(* The model follows app/services/smart_router.py (SmartRouter), the two   *)
(* source adapters it calls (GA4Service / OptimizedGA4Service and          *)
(* BigQueryService), the cache it reads and writes (CacheService) and the  *)
(* wiring of app/core/container.py.  The cache classes are also modelled   *)
(* on their own (CacheService and OptimizedCacheService: get, set, delete, *)
(* exists, clear_pattern, get_cache_stats, the eviction of the in-process  *)
(* store, sets running concurrently), and so are the trend engine          *)
(* (TrendAnalysisService.analyze_trend), ServiceContainer (get, reset) and *)
(* the retry loop of OptimizedGA4Service._execute_with_retry.              *)
(*                                                                         *)
(* Conventions                                                             *)
(*  - Python None is the string None; a key missing from a mapping is      *)
(*    Absent.                                                              *)
(*  - A metric or dimension reference is [shape, name]: shape "obj" is the *)
(*    mapping {"name": name}, shape "str" is the bare string name.         *)
(*  - A date string is [kind, n]: "today", "yesterday", "NdaysAgo" (kind   *)
(*    "daysAgo", N = n), an absolute "YYYY-MM-DD" date (kind "date", n the *)
(*    age of that date in days) and a string that contains "daysAgo" but   *)
(*    whose remainder is no integer (kind "badDaysAgo").                   *)
(*  - Scores are in thousandths (0.3 * 0.25 is 75); weights are in         *)
(*    hundredths and factor scores in tenths.  The scoring is also carried *)
(*    out in binary64, the arithmetic of Python floats (SpecScore).        *)
(*  - A call that can raise returns [raised, value].                       *)
(***************************************************************************)
EXTENDS Integers, Sequences, FiniteSets, TLC

VARIABLES
    settings,       \* app.core.config.settings: the two routing flags
    bq_client,      \* BigQueryService.client is not None
    ga4_client,     \* GA4Service.client / OptimizedGA4Service._client is not None
    redis_client,   \* CacheService.redis_client is not None
    wiring,         \* "default": SmartRouter(); "container": ServiceContainer._create_smart_router
    now,            \* datetime.now(), in seconds
    memory_cache,   \* CacheService.memory_cache, in insertion order
    redis_store,    \* the keys held by the Redis server
    calls,          \* number of execute_query calls made so far
    last,           \* record of the latest execute_query call
    route,          \* record of the latest _select_data_source / _determine_cache_ttl evaluation
    step,           \* record of the latest run of steps 5-6 of execute_query on a fetched result
    stats,          \* OptimizedCacheService.stats
    op,             \* record of the cache operations made directly on the cache service
    analysis,       \* record of the latest TrendAnalysisService.analyze_trend call
    container,      \* ServiceContainer: registrations, instances and factory runs
    retry,          \* OptimizedGA4Service._execute_with_retry: the loop of one request
    inflight        \* the OptimizedCacheService.set calls in progress, one per task

\* The components exercised on their own.
units == <<analysis, container, retry, inflight>>

vars == <<settings, bq_client, ga4_client, redis_client, wiring,
          now, memory_cache, redis_store, calls, last, route, step, stats, op,
          analysis, container, retry, inflight>>

None == "None"
Absent == "absent"

(***************************************************************************)
(* Bounds of the model                                                     *)
(***************************************************************************)
MaxCalls == 2        \* execute_query calls per behaviour
MaxTime == 120       \* the clock stops here
MaxMetrics == 5      \* longest metric list of a routed descriptor
MaxSelects == 2      \* repeated _select_data_source calls on one descriptor
MaxOps == 3          \* cache operations per behaviour

(***************************************************************************)
(* Program constants                                                       *)
(***************************************************************************)
CACHE_TTL_SECONDS == 3600
base_ttl == 300
live_ttl == 60
max_memory_cache_size == 1000
MAX_CACHE_SIZE_MB == 512
GA4_PROPERTY_ID == None

DataSource == {"ga4_api", "bigquery", "mock"}

routing_weights ==
    [data_volume |-> 30, query_complexity |-> 25, date_range |-> 20,
     performance |-> 15, availability |-> 10]

(***************************************************************************)
(* Query descriptors                                                       *)
(***************************************************************************)
MetricNames == <<"totalUsers", "sessions", "screenPageViews", "conversions",
                 "totalRevenue", "newUsers", "bounceRate">>

Ref(shape, name) == [shape |-> shape, name |-> name]

\* The first n metric names, each in the given shape.
MetricList(n, shape) == [i \in 1..n |-> Ref(shape, MetricNames[i])]

DimNameLists ==
    { <<>>, <<"date">>, <<"pageTitle">>, <<"date", "country">>,
      <<"date", "country", "pageTitle">>, <<"week", "country", "date">> }

DimList(names, shape) == [i \in 1..Len(names) |-> Ref(shape, names[i])]

DateStr(kind, n) == [kind |-> kind, n |-> n]
Today == DateStr("today", 0)
Yesterday == DateStr("yesterday", 0)
DaysAgo(n) == DateStr("daysAgo", n)

DateRange(s, e) == [start_date |-> s, end_date |-> e]

Descriptor(metrics, dimensions, date_ranges, filters, limit) ==
    [metrics |-> metrics, dimensions |-> dimensions, date_ranges |-> date_ranges,
     filters |-> filters, limit |-> limit]

Min(a, b) == IF a < b THEN a ELSE b

HasStrRef(refs) == \E i \in 1..Len(refs) : refs[i].shape = "str"
HasObjRef(refs) == \E i \in 1..Len(refs) : refs[i].shape = "obj"

DimNames(qp) == { qp.dimensions[i].name : i \in 1..Len(qp.dimensions) }

(***************************************************************************)
(* BigQueryService.is_available.  BIGQUERY_AVAILABLE (the import guard) is *)
(* folded into bq_client: without the library the client is never built.   *)
(***************************************************************************)
is_available == bq_client /\ settings.ENABLE_BIGQUERY_ROUTING

(***************************************************************************)
(* SmartRouter._analyze_data_volume, in tenths.  int() of a non-numeric    *)
(* "...daysAgo" string raises ValueError.                                  *)
(***************************************************************************)
analyze_data_volume_raises(qp) ==
    /\ qp.date_ranges # <<>>
    /\ qp.date_ranges[1].start_date.kind = "badDaysAgo"

analyze_data_volume(qp) ==
    LET start == IF qp.date_ranges = <<>> THEN DaysAgo(0) ELSE qp.date_ranges[1].start_date
        days == IF qp.date_ranges # <<>> /\ start.kind = "daysAgo" THEN start.n ELSE 0
        byRange == IF days > 90 THEN 4 ELSE IF days > 30 THEN 2 ELSE 0
        nd == Len(qp.dimensions)
        byDims == IF nd > 2 THEN 3 ELSE IF nd > 1 THEN 1 ELSE 0
        nm == Len(qp.metrics)
        byMetrics == IF nm > 4 THEN 2 ELSE IF nm > 2 THEN 1 ELSE 0
        byLimit == IF qp.limit > 100 THEN 1 ELSE 0
    IN Min(byRange + byDims + byMetrics + byLimit, 10)

(***************************************************************************)
(* SmartRouter._analyze_query_complexity, in tenths.  d.get("name", "")    *)
(* raises AttributeError on a dimension given as a bare string.            *)
(***************************************************************************)
complex_dimensions == {"pageTitle", "eventName", "customDimension"}

analyze_query_complexity_raises(qp) == HasStrRef(qp.dimensions)

analyze_query_complexity(qp) ==
    LET byFilters == IF qp.filters THEN 3 ELSE 0
        byDims == IF DimNames(qp) \cap complex_dimensions # {} THEN 3 ELSE 0
        byRanges == IF Len(qp.date_ranges) > 1 THEN 4 ELSE 0
    IN Min(byFilters + byDims + byRanges, 10)

(***************************************************************************)
(* SmartRouter._analyze_date_range, in tenths.                             *)
(***************************************************************************)
analyze_date_range_raises(qp) ==
    /\ qp.date_ranges # <<>>
    /\ qp.date_ranges[1].start_date.kind = "badDaysAgo"

analyze_date_range(qp) ==
    IF qp.date_ranges = <<>> THEN 0
    ELSE LET start == qp.date_ranges[1].start_date
         IN IF start.kind \in {"today", "yesterday"} THEN 1
            ELSE IF start.kind = "daysAgo"
                 THEN IF start.n > 365 THEN 10
                      ELSE IF start.n > 90 THEN 8
                      ELSE IF start.n > 30 THEN 5
                      ELSE 2
            ELSE 0

(***************************************************************************)
(* The two weighted totals of _select_data_source, in thousandths, and the *)
(* source max() picks.  max() returns the first maximal item, which in     *)
(* exact arithmetic is GA4_API on a tie.  The code adds IEEE-754 doubles:  *)
(* every reachable exact tie (both totals 0.5) evaluates to                *)
(* GA4_API = 0.49999999999999994 and BIGQUERY = 0.5, so the double         *)
(* comparison picks BIGQUERY there; away from a tie the rounding error is  *)
(* far below the smallest gap (0.005) and the exact comparison decides.    *)
(***************************************************************************)
bigquery_total(qp) ==
      analyze_data_volume(qp) * routing_weights.data_volume
    + analyze_query_complexity(qp) * routing_weights.query_complexity
    + analyze_date_range(qp) * routing_weights.date_range
    + 4 * routing_weights.performance
    + 5 * routing_weights.availability

ga4_total(qp) ==
      (10 - analyze_data_volume(qp)) * routing_weights.data_volume
    + (10 - analyze_query_complexity(qp)) * routing_weights.query_complexity
    + (10 - analyze_date_range(qp)) * routing_weights.date_range
    + 6 * routing_weights.performance
    + 5 * routing_weights.availability

scored_source(qp) ==
    IF bigquery_total(qp) >= ga4_total(qp) THEN "bigquery" ELSE "ga4_api"

(***************************************************************************)
(* The same scoring in the arithmetic the code runs in.  Python floats are *)
(* IEEE-754 binary64: every literal, sum, difference and product is the    *)
(* exact result rounded to 53 significant bits, ties to even.  A number is *)
(* kept here as the natural number value * 2^Scale, written in limbs of    *)
(* LimbBits bits, least significant first; every double that occurs in the *)
(* scoring is 0 or at least 2^-6, hence a multiple of 2^-58.               *)
(***************************************************************************)
Base == 1024
LimbBits == 10
Limb(a, i) == IF i <= Len(a) THEN a[i] ELSE 0

RECURSIVE Trim(_)
Trim(a) == IF a # <<>> /\ a[Len(a)] = 0 THEN Trim(SubSeq(a, 1, Len(a) - 1)) ELSE a

RECURSIVE CarryFrom(_, _, _)
CarryFrom(w, i, c) ==
    IF i > Len(w)
    THEN IF c = 0 THEN <<>> ELSE <<c % Base>> \o CarryFrom(w, i, c \div Base)
    ELSE <<(w[i] + c) % Base>> \o CarryFrom(w, i + 1, (w[i] + c) \div Base)

Carry(w) == Trim(CarryFrom(w, 1, 0))

BigAdd(a, b) ==
    Carry([i \in 1..(IF Len(a) > Len(b) THEN Len(a) ELSE Len(b)) |-> Limb(a, i) + Limb(b, i)])

RECURSIVE Column(_, _, _, _)
Column(a, b, k, i) ==
    IF i > Len(a) \/ i > k THEN 0
    ELSE Limb(a, i) * Limb(b, k + 1 - i) + Column(a, b, k, i + 1)

BigMul(a, b) == Carry([k \in 1..(Len(a) + Len(b)) |-> Column(a, b, k, 1)])

\* a - b for a >= b
RECURSIVE BorrowFrom(_, _, _, _)
BorrowFrom(a, b, i, c) ==
    IF i > Len(a) THEN <<>>
    ELSE LET t == a[i] - Limb(b, i) - c
         IN <<(t + Base) % Base>> \o BorrowFrom(a, b, i + 1, IF t < 0 THEN 1 ELSE 0)

BigSub(a, b) == Trim(BorrowFrom(a, b, 1, 0))

\* -1, 0, 1
RECURSIVE CmpFrom(_, _, _)
CmpFrom(a, b, i) ==
    IF i = 0 THEN 0
    ELSE IF Limb(a, i) < Limb(b, i) THEN -1
    ELSE IF Limb(a, i) > Limb(b, i) THEN 1
    ELSE CmpFrom(a, b, i - 1)

BigCmp(a, b) == CmpFrom(a, b, IF Len(a) > Len(b) THEN Len(a) ELSE Len(b))

RECURSIVE TwoTo(_)
TwoTo(n) == IF n = 0 THEN 1 ELSE 2 * TwoTo(n - 1)

RECURSIVE BitsOf(_)
BitsOf(x) == IF x = 0 THEN 0 ELSE 1 + BitsOf(x \div 2)

BitLen(a) == LET t == Trim(a) IN IF t = <<>> THEN 0 ELSE LimbBits * (Len(t) - 1) + BitsOf(t[Len(t)])

\* floor(a / 2^r)
ShiftRight(a, r) ==
    LET w == r \div LimbBits
        s == r % LimbBits
    IN Trim([i \in 1..(IF Len(a) > w THEN Len(a) - w ELSE 0) |->
                Limb(a, i + w) \div TwoTo(s)
                + (Limb(a, i + w + 1) % TwoTo(s)) * TwoTo(LimbBits - s)])

\* a mod 2^r
LowBits(a, r) ==
    LET w == r \div LimbBits
        s == r % LimbBits
    IN Trim([i \in 1..(w + 1) |-> IF i <= w THEN Limb(a, i) ELSE Limb(a, i) % TwoTo(s)])

\* a * 2^r
ShiftLeft(a, r) ==
    LET w == r \div LimbBits
        s == r % LimbBits
    IN Carry([i \in 1..(Len(a) + w) |-> IF i <= w THEN 0 ELSE a[i - w] * TwoTo(s)])

BigOfSmall(n) == Carry(<<n>>)

\* round to nearest, ties to even, keeping 53 significant bits
Round53(a) ==
    LET r == BitLen(a) - 53
    IN IF r <= 0 THEN Trim(a)
       ELSE LET q == ShiftRight(a, r)
                rem == LowBits(a, r)
                half == ShiftLeft(<<1>>, r - 1)
                c == BigCmp(rem, half)
                up == c = 1 \/ (c = 0 /\ Limb(q, 1) % 2 = 1)
            IN ShiftLeft(IF up THEN BigAdd(q, <<1>>) ELSE q, r)

\* floor(a / d) for a small d
RECURSIVE DivFrom(_, _, _, _)
DivFrom(a, d, i, rem) ==
    IF i = 0 THEN <<>>
    ELSE LET t == rem * Base + a[i]
         IN DivFrom(a, d, i - 1, t % d) \o <<t \div d>>

BigDivSmall(a, d) == Trim(DivFrom(a, d, Len(a), 0))

Scale == 60
One == ShiftLeft(<<1>>, Scale)
Zero == <<>>

\* the double nearest to k / 100, k > 0 (k/100 is never half-way between doubles
\* unless it is a double)
Lit(k) == ShiftRight(Round53(BigDivSmall(ShiftLeft(BigOfSmall(k), 2 * Scale), 100)), Scale)

DAdd(x, y) == Round53(BigAdd(x, y))
DSub(x, y) == Round53(BigSub(x, y))
DMul(x, y) == ShiftRight(Round53(BigMul(x, y)), Scale)

DMin(x, y) == IF BigCmp(x, y) <= 0 THEN x ELSE y

\* score = 0.0, then score += x for each x in turn.
RECURSIVE AddAll(_)
AddAll(xs) == IF xs = <<>> THEN Zero
              ELSE DAdd(AddAll(SubSeq(xs, 1, Len(xs) - 1)), xs[Len(xs)])

\* _analyze_data_volume
data_volume_score(qp) ==
    LET start == IF qp.date_ranges = <<>> THEN DaysAgo(0) ELSE qp.date_ranges[1].start_date
        days == IF qp.date_ranges # <<>> /\ start.kind = "daysAgo" THEN start.n ELSE 0
        nd == Len(qp.dimensions)
        nm == Len(qp.metrics)
    IN DMin(AddAll((IF days > 90 THEN <<Lit(40)>> ELSE IF days > 30 THEN <<Lit(20)>> ELSE <<>>)
                   \o (IF nd > 2 THEN <<Lit(30)>> ELSE IF nd > 1 THEN <<Lit(10)>> ELSE <<>>)
                   \o (IF nm > 4 THEN <<Lit(20)>> ELSE IF nm > 2 THEN <<Lit(10)>> ELSE <<>>)
                   \o (IF qp.limit > 100 THEN <<Lit(10)>> ELSE <<>>)),
            One)

\* _analyze_query_complexity
complexity_score(qp) ==
    DMin(AddAll((IF qp.filters THEN <<Lit(30)>> ELSE <<>>)
                \o (IF DimNames(qp) \cap complex_dimensions # {} THEN <<Lit(30)>> ELSE <<>>)
                \o (IF Len(qp.date_ranges) > 1 THEN <<Lit(40)>> ELSE <<>>)),
         One)

\* _analyze_date_range
date_range_score(qp) ==
    IF qp.date_ranges = <<>> THEN Zero
    ELSE LET start == qp.date_ranges[1].start_date
         IN IF start.kind \in {"today", "yesterday"} THEN Lit(10)
            ELSE IF start.kind = "daysAgo"
                 THEN IF start.n > 365 THEN Lit(100)
                      ELSE IF start.n > 90 THEN Lit(80)
                      ELSE IF start.n > 30 THEN Lit(50)
                      ELSE Lit(20)
            ELSE Zero

Weight(factor) == Lit(routing_weights[factor])

\* A scoring that credits the performance bias of the live API to both sources.
scores_with_shared_bias(qp) ==
    [ga4_api |->
        AddAll(<<DMul(DSub(One, data_volume_score(qp)), Weight("data_volume")),
                 DMul(DSub(One, complexity_score(qp)), Weight("query_complexity")),
                 DMul(DSub(One, date_range_score(qp)), Weight("date_range")),
                 DMul(Lit(60), Weight("performance")),
                 DMul(Lit(50), Weight("availability"))>>),
     bigquery |->
        AddAll(<<DMul(data_volume_score(qp), Weight("data_volume")),
                 DMul(complexity_score(qp), Weight("query_complexity")),
                 DMul(date_range_score(qp), Weight("date_range")),
                 DMul(Lit(60), Weight("performance")),
                 DMul(Lit(50), Weight("availability"))>>)]

\* The scores dict of _select_data_source after its five steps.
scores(qp) ==
    [ga4_api |->
        AddAll(<<DMul(DSub(One, data_volume_score(qp)), Weight("data_volume")),
                 DMul(DSub(One, complexity_score(qp)), Weight("query_complexity")),
                 DMul(DSub(One, date_range_score(qp)), Weight("date_range")),
                 DMul(Lit(60), Weight("performance")),
                 DMul(Lit(50), Weight("availability"))>>),
     bigquery |->
        AddAll(<<DMul(data_volume_score(qp), Weight("data_volume")),
                 DMul(complexity_score(qp), Weight("query_complexity")),
                 DMul(date_range_score(qp), Weight("date_range")),
                 DMul(Lit(40), Weight("performance")),
                 DMul(Lit(50), Weight("availability"))>>)]

\* max(scores.items(), key=...): the first item with the greatest score, and
\* GA4_API is the first item.
max_score(s) == IF BigCmp(s.bigquery, s.ga4_api) = 1 THEN "bigquery" ELSE "ga4_api"

(***************************************************************************)
(* SmartRouter._select_data_source.  reasoning is the kind of the          *)
(* reasoning string; scored tells whether the factor scores were computed. *)
(***************************************************************************)
Decision(source, reasoning, scored) ==
    [raised |-> FALSE, source |-> source, reasoning |-> reasoning, scored |-> scored]

DecisionRaised ==
    [raised |-> TRUE, source |-> Absent, reasoning |-> Absent, scored |-> TRUE]

\* A selector that looks at the mock flag before the two warehouse checks.
select_data_source_mock_first(qp) ==
    IF settings.USE_MOCK_GA4_API
    THEN Decision("mock", "Mock mode enabled", FALSE)
    ELSE IF ~settings.ENABLE_BIGQUERY_ROUTING
    THEN Decision("ga4_api", "BigQuery routing disabled in settings", FALSE)
    ELSE IF ~is_available
    THEN Decision("ga4_api", "BigQuery service not available", FALSE)
    ELSE IF \/ analyze_data_volume_raises(qp)
            \/ analyze_query_complexity_raises(qp)
            \/ analyze_date_range_raises(qp)
    THEN DecisionRaised
    ELSE Decision(scored_source(qp), "Selected by score", TRUE)

\* A selector that sends everything to the live API once a request was served.
select_data_source_after_first_request(qp) ==
    IF calls > 0 \/ ~settings.ENABLE_BIGQUERY_ROUTING
    THEN Decision("ga4_api", "BigQuery routing disabled in settings", FALSE)
    ELSE select_data_source_mock_first(qp)

select_data_source(qp) ==
    IF ~settings.ENABLE_BIGQUERY_ROUTING
    THEN Decision("ga4_api", "BigQuery routing disabled in settings", FALSE)
    ELSE IF ~is_available
    THEN Decision("ga4_api", "BigQuery service not available", FALSE)
    ELSE IF settings.USE_MOCK_GA4_API
    THEN Decision("mock", "Mock mode enabled", FALSE)
    ELSE IF \/ analyze_data_volume_raises(qp)
            \/ analyze_query_complexity_raises(qp)
            \/ analyze_date_range_raises(qp)
    THEN DecisionRaised
    ELSE Decision(scored_source(qp), "Selected by score", TRUE)

(***************************************************************************)
(* SmartRouter._determine_cache_ttl                                        *)
(***************************************************************************)
\* A TTL policy that doubles for an expensive query before it looks at the end dates.
determine_cache_ttl_expensive_first(qp) ==
    IF Len(qp.metrics) > 3 \/ Len(qp.dimensions) > 2
    THEN base_ttl * 2
    ELSE IF \E i \in 1..Len(qp.date_ranges) : qp.date_ranges[i].end_date = Today
    THEN live_ttl
    ELSE base_ttl

determine_cache_ttl(qp) ==
    IF \E i \in 1..Len(qp.date_ranges) : qp.date_ranges[i].end_date = Today
    THEN live_ttl
    ELSE IF Len(qp.metrics) > 3 \/ Len(qp.dimensions) > 2
    THEN base_ttl * 2
    ELSE base_ttl

(***************************************************************************)
(* Results of the adapters.  message is the set of failure reasons the     *)
(* message text carries; rows and totals are sequences of row tags.        *)
(***************************************************************************)
Rows(tag, n) == [i \in 1..n |-> tag]

Result(error, message, rows, totals, data_source, mock_data) ==
    [error |-> error, message |-> message, rows |-> rows, totals |-> totals,
     row_count |-> Len(rows), data_source |-> data_source,
     routing_reasoning |-> Absent, trend_analysis |-> Absent,
     mock_data |-> mock_data]

Returned(value) == [raised |-> FALSE, value |-> value]
Raised(reason) == [raised |-> TRUE, value |-> reason]

\* Rows a live API or warehouse call returns when it succeeds.
ApiRows == 3

(***************************************************************************)
(* GA4Service._get_mock_data: the rows depend on the dimension names only. *)
(***************************************************************************)
GA4Service_get_mock_data(qp) ==
    LET names == DimNames(qp)
        n == IF "pageTitle" \in names \/ "sessionDefaultChannelGrouping" \in names
             THEN 3 ELSE 1
    IN Result(FALSE, {}, Rows("mock_row", n), Rows("mock_total", 1), Absent, TRUE)

GA4Service_error == Result(TRUE, {"ga4_api"}, <<>>, <<>>, Absent, FALSE)

\* _build_ga4_request indexes metric["name"] and dimension["name"]: TypeError on a string.
build_ga4_request_raises(qp) == HasStrRef(qp.metrics) \/ HasStrRef(qp.dimensions)

(***************************************************************************)
(* GA4Service.execute_query: the whole body is inside try/except, every    *)
(* failure comes back as an error result.  api is the outcome of           *)
(* client.run_report.                                                      *)
(***************************************************************************)
GA4Service_execute_query(qp, property_id, api) ==
    LET target == IF property_id # None THEN property_id ELSE GA4_PROPERTY_ID
    IN IF target = None THEN Returned(GA4Service_error)
       ELSE IF settings.USE_MOCK_GA4_API \/ ~ga4_client
       THEN IF HasStrRef(qp.dimensions) THEN Returned(GA4Service_error)
            ELSE Returned(GA4Service_get_mock_data(qp))
       ELSE IF build_ga4_request_raises(qp) THEN Returned(GA4Service_error)
       ELSE IF api = "fail" THEN Returned(GA4Service_error)
       ELSE Returned(Result(FALSE, {}, Rows("ga4_row", ApiRows), Rows("ga4_total", 1),
                            Absent, FALSE))

(***************************************************************************)
(* OptimizedGA4Service: validation errors and API errors are raised.       *)
(***************************************************************************)
validate_query_params_raises(qp) ==
    \/ qp.metrics = <<>>
    \/ qp.date_ranges = <<>>
    \/ HasStrRef(qp.metrics)

OptimizedGA4Service_get_mock_data(qp) ==
    Result(FALSE, {}, Rows("mock_row", Min(10, qp.limit)), Rows("mock_total", 1),
           Absent, TRUE)

OptimizedGA4Service_execute_query(qp, property_id, api) ==
    LET target == IF property_id # None THEN property_id ELSE GA4_PROPERTY_ID
    IN IF validate_query_params_raises(qp) THEN Raised("ValidationError")
       ELSE IF target = None THEN Raised("ValidationError")
       ELSE IF settings.USE_MOCK_GA4_API \/ ~ga4_client
       THEN IF HasStrRef(qp.dimensions) THEN Raised("GA4APIError")
            ELSE Returned(OptimizedGA4Service_get_mock_data(qp))
       ELSE IF HasStrRef(qp.dimensions) THEN Raised("GA4APIError")
       ELSE IF api = "fail" THEN Raised("GA4APIError")
       ELSE Returned(Result(FALSE, {}, Rows("ga4_row", ApiRows), Rows("ga4_total", 1),
                            Absent, FALSE))

(***************************************************************************)
(* BigQueryService.execute_query: try/except around everything.  job is    *)
(* the outcome of client.query(...).result().                              *)
(***************************************************************************)
BigQueryService_error == Result(TRUE, {"bigquery"}, <<>>, <<>>, Absent, FALSE)

\* _build_sql_query calls dim.get / metric.get and converts the first date range.
build_sql_query_raises(qp) ==
    \/ HasStrRef(qp.dimensions)
    \/ HasStrRef(qp.metrics)
    \/ /\ qp.date_ranges # <<>>
       /\ \/ qp.date_ranges[1].start_date.kind = "badDaysAgo"
          \/ qp.date_ranges[1].end_date.kind = "badDaysAgo"

BigQueryService_execute_query(qp, property_id, job) ==
    IF ~bq_client THEN Returned(BigQueryService_error)
    ELSE IF build_sql_query_raises(qp) THEN Returned(BigQueryService_error)
    ELSE IF job = "fail" THEN Returned(BigQueryService_error)
    ELSE Returned(Result(FALSE, {}, Rows("bq_row", ApiRows), Rows("bq_total", 1),
                         "bigquery", FALSE))

(***************************************************************************)
(* CacheService._generate_query_cache_key.  sorted() compares the items:   *)
(* two or more items of which one is a mapping raise TypeError (dict has   *)
(* no order); strings sort by code point.  json.dumps(sort_keys=True) is   *)
(* canonical and the MD5 digest is taken to be collision free, so the key  *)
(* is the normalized record itself.  filters is not part of the key.       *)
(***************************************************************************)
NameOrder == <<"bounceRate", "conversions", "country", "date", "newUsers", "pageTitle",
               "screenPageViews", "sessions", "totalRevenue", "totalUsers", "week">>

NameRank(name) == CHOOSE i \in 1..Len(NameOrder) : NameOrder[i] = name

RemoveAt(s, i) == SubSeq(s, 1, i - 1) \o SubSeq(s, i + 1, Len(s))

sorted_raises(refs) == Len(refs) >= 2 /\ HasObjRef(refs)

RECURSIVE sorted(_)
sorted(refs) ==
    IF Len(refs) <= 1 THEN refs
    ELSE LET i == CHOOSE i \in 1..Len(refs) :
                    \A j \in 1..Len(refs) :
                        \/ NameRank(refs[i].name) < NameRank(refs[j].name)
                        \/ NameRank(refs[i].name) = NameRank(refs[j].name) /\ i <= j
         IN <<refs[i]>> \o sorted(RemoveAt(refs, i))

generate_query_cache_key(qp, property_id) ==
    IF sorted_raises(qp.metrics) \/ sorted_raises(qp.dimensions)
    THEN Raised("TypeError")
    ELSE Returned([metrics |-> sorted(qp.metrics),
                   dimensions |-> sorted(qp.dimensions),
                   date_ranges |-> qp.date_ranges,
                   property_id |-> property_id,
                   limit |-> qp.limit])

(***************************************************************************)
(* json.dumps / json.loads of a cached value (the Redis path).             *)
(***************************************************************************)
\* A Python value handed to the cache by a caller: its type and its content.
PyValue(type, id) == [type |-> type, id |-> id]

\* What the JSON text keeps of a value: a tuple is written as an array and a
\* mapping's integer keys as strings, so they come back as a list and as a
\* mapping with string keys.  The query results the router caches are
\* mappings with string keys, lists, strings and numbers, which JSON keeps.
json_form(value) ==
    IF "type" \in DOMAIN value
    THEN [value EXCEPT !.type = IF @ = "tuple" THEN "list"
                                ELSE IF @ = "int_key_dict" THEN "dict"
                                ELSE @]
    ELSE value

json_dumps(value) == [json |-> json_form(value)]
json_loads(text) == text.json

(***************************************************************************)
(* CacheService.get / set on explicit stores: mem is memory_cache, red is  *)
(* the Redis key space, redis_ok tells whether the Redis command of this   *)
(* call gets through (a ConnectionError is caught by the method).          *)
(***************************************************************************)
MemIndex(mem, key) ==
    IF \E i \in 1..Len(mem) : mem[i].key = key
    THEN CHOOSE i \in 1..Len(mem) : mem[i].key = key
    ELSE 0

Live(red) == { k \in DOMAIN red : now < red[k].expires_at }

CacheMiss(mem) == [found |-> FALSE, value |-> None, memory_cache |-> mem]
CacheHit(value, mem) == [found |-> TRUE, value |-> value, memory_cache |-> mem]

CacheService_get(mem, red, key, redis_ok) ==
    IF redis_client
    THEN IF ~redis_ok THEN CacheMiss(mem)
         ELSE IF key \in Live(red) THEN CacheHit(json_loads(red[key].value), mem)
         ELSE CacheMiss(mem)
    ELSE LET i == MemIndex(mem, key)
         IN IF i = 0 THEN CacheMiss(mem)
            ELSE IF now < mem[i].expires_at THEN CacheHit(mem[i].value, mem)
            ELSE CacheMiss(RemoveAt(mem, i))

\* CacheService._cleanup_memory_cache
\* A cleanup that takes the quarter to evict from the front of the store.
cleanup_memory_cache_by_position(mem) ==
    LET kept == SelectSeq(mem, LAMBDA e : ~(now > e.expires_at))
        n == Len(kept)
    IN IF n >= max_memory_cache_size THEN SubSeq(kept, n \div 4 + 1, n) ELSE kept

\* A cleanup that drops the expired entries and nothing else.
cleanup_memory_cache_expired_only(mem) ==
    SelectSeq(mem, LAMBDA e : ~(now > e.expires_at))

cleanup_memory_cache(mem) ==
    LET kept == SelectSeq(mem, LAMBDA e : ~(now > e.expires_at))
        n == Len(kept)
        num_to_delete == n \div 4
        \* items.sort(key=created_at) is stable: the first num_to_delete items
        \* are the entries created before the cutoff time, and of those created
        \* at the cutoff time the ones that come first in the store.
        times == { kept[i].created_at : i \in 1..n }
        before(t) == Cardinality({ i \in 1..n : kept[i].created_at < t })
        until(t) == Cardinality({ i \in 1..n : kept[i].created_at <= t })
        cutoff == CHOOSE t \in times : before(t) < num_to_delete /\ num_to_delete <= until(t)
        at_cutoff == { i \in 1..n : kept[i].created_at = cutoff }
        last_deleted == CHOOSE m \in at_cutoff :
                            Cardinality({ j \in at_cutoff : j <= m })
                                = num_to_delete - before(cutoff)
        tagged == [i \in 1..n |-> [entry |-> kept[i], index |-> i]]
        left == SelectSeq(tagged, LAMBDA x :
                    \/ x.entry.created_at > cutoff
                    \/ x.entry.created_at = cutoff /\ x.index > last_deleted)
    IN IF n >= max_memory_cache_size /\ num_to_delete > 0
       THEN [i \in 1..Len(left) |-> left[i].entry]
       ELSE kept

CacheService_set(mem, red, key, value, ttl, redis_ok) ==
    LET t == IF ttl = 0 THEN CACHE_TTL_SECONDS ELSE ttl
    IN IF redis_client
       THEN IF ~redis_ok
            THEN [ok |-> FALSE, memory_cache |-> mem, redis_store |-> red]
            ELSE [ok |-> TRUE, memory_cache |-> mem,
                  redis_store |->
                      [k \in DOMAIN red \cup {key} |->
                          IF k = key
                          THEN [value |-> json_dumps(value), expires_at |-> now + t]
                          ELSE red[k]]]
       ELSE LET cleaned == IF Len(mem) >= max_memory_cache_size
                           THEN cleanup_memory_cache(mem) ELSE mem
                entry == [key |-> key, value |-> value,
                          expires_at |-> now + t, created_at |-> now]
                i == MemIndex(cleaned, key)
            IN [ok |-> TRUE,
                memory_cache |-> IF i = 0 THEN Append(cleaned, entry)
                                 ELSE [cleaned EXCEPT ![i] = entry],
                redis_store |-> red]

\* CacheService._match_pattern: re.match of the pattern with "*" turned into
\* ".*", on the patterns ClearPatterns and the keys of the model.
match_pattern(key, pattern) ==
    CASE pattern = "*" -> TRUE
      [] pattern = "k*" -> key \in {"k1"}
      [] OTHER -> FALSE

\* CacheService.clear_pattern: the number of keys removed, 0 on any exception.
CacheService_clear_pattern(mem, red, pattern, redis_ok) ==
    IF redis_client
    THEN IF ~redis_ok
         THEN [count |-> 0, memory_cache |-> mem, redis_store |-> red]
         ELSE LET keys == { k \in Live(red) : match_pattern(k, pattern) }
              IN [count |-> Cardinality(keys), memory_cache |-> mem,
                  redis_store |-> [k \in DOMAIN red \ keys |-> red[k]]]
    ELSE LET left == SelectSeq(mem, LAMBDA e : ~match_pattern(e.key, pattern))
         IN [count |-> Len(mem) - Len(left), memory_cache |-> left, redis_store |-> red]

\* CacheService.delete: the Redis command or the pop, False on any exception.
CacheService_delete(mem, red, key, redis_ok) ==
    IF redis_client
    THEN IF ~redis_ok
         THEN [ok |-> FALSE, memory_cache |-> mem, redis_store |-> red]
         ELSE [ok |-> TRUE, memory_cache |-> mem,
               redis_store |-> [k \in DOMAIN red \ {key} |-> red[k]]]
    ELSE LET i == MemIndex(mem, key)
         IN [ok |-> TRUE,
             memory_cache |-> IF i = 0 THEN mem ELSE RemoveAt(mem, i),
             redis_store |-> red]

\* CacheService.exists
CacheService_exists(mem, red, key, redis_ok) ==
    IF redis_client
    THEN [value |-> redis_ok /\ key \in Live(red), memory_cache |-> mem]
    ELSE LET i == MemIndex(mem, key)
         IN IF i = 0 THEN [value |-> FALSE, memory_cache |-> mem]
            ELSE IF now < mem[i].expires_at THEN [value |-> TRUE, memory_cache |-> mem]
            ELSE [value |-> FALSE, memory_cache |-> RemoveAt(mem, i)]

\* CacheService.get_cache_stats: the mapping it returns.
CacheService_get_cache_stats(mem, redis_ok) ==
    IF redis_client
    THEN IF ~redis_ok THEN [error |-> TRUE]
         ELSE [redis_available |-> TRUE, cache_type |-> "redis",
               default_ttl |-> CACHE_TTL_SECONDS, redis_total_commands |-> 0]
    ELSE [redis_available |-> FALSE, cache_type |-> "memory",
          default_ttl |-> CACHE_TTL_SECONDS, memory_cache_size |-> Len(mem),
          memory_cache_max_size |-> max_memory_cache_size]

(***************************************************************************)
(* OptimizedCacheService (cache_service_v2.py).  memory_cache is a         *)
(* TTLCache(maxsize, ttl = CACHE_TTL_SECONDS): every entry lives for the   *)
(* cache's own ttl, a lookup moves the entry to the most recently used     *)
(* end, an insertion drops the expired entries and, when the cache is      *)
(* full, the least recently used one.  redis is the outcome of the Redis   *)
(* command of the call: "ok", "connection_error" (redis.ConnectionError)   *)
(* or "timeout" (any other exception).  client is redis_client, st is      *)
(* self.stats.                                                             *)
(***************************************************************************)
TTLCache_maxsize == MAX_CACHE_SIZE_MB * 1024

TTLCache_get(mem, key) ==
    LET i == MemIndex(mem, key)
    IN IF i = 0 \/ ~(now < mem[IF i = 0 THEN 1 ELSE i].expires_at)
       THEN [found |-> FALSE, value |-> None, memory_cache |-> mem]
       ELSE [found |-> TRUE, value |-> mem[i].value,
             memory_cache |-> Append(RemoveAt(mem, i), mem[i])]

TTLCache_setitem(mem, key, value) ==
    LET unexpired == SelectSeq(mem, LAMBDA e : now < e.expires_at)
        i == MemIndex(unexpired, key)
        others == IF i = 0 THEN unexpired ELSE RemoveAt(unexpired, i)
        room == IF Len(others) >= TTLCache_maxsize THEN Tail(others) ELSE others
    IN Append(room, [key |-> key, value |-> value,
                     expires_at |-> now + CACHE_TTL_SECONDS, created_at |-> now])

TTLCache_pop(mem, key) ==
    LET i == MemIndex(mem, key)
    IN IF i = 0 THEN mem ELSE RemoveAt(mem, i)

Count(st, counter) == [st EXCEPT ![counter] = @ + 1]

OptimizedCacheService_get(mem, red, client, st, key, redis) ==
    IF client /\ redis = "timeout"
    THEN [found |-> FALSE, value |-> None, memory_cache |-> mem,
          redis_client |-> client, stats |-> Count(st, "errors")]
    ELSE IF client /\ redis = "ok" /\ key \in Live(red)
    THEN [found |-> TRUE, value |-> json_loads(red[key].value), memory_cache |-> mem,
          redis_client |-> client, stats |-> Count(st, "hits")]
    ELSE LET g == TTLCache_get(mem, key)
         IN [found |-> g.found, value |-> g.value, memory_cache |-> g.memory_cache,
             redis_client |-> client /\ redis # "connection_error",
             stats |-> Count(st, IF g.found THEN "hits" ELSE "misses")]

OptimizedCacheService_set(mem, red, client, st, key, value, ttl, redis) ==
    LET t == IF ttl = 0 THEN CACHE_TTL_SECONDS ELSE ttl
    IN IF client /\ redis = "timeout"
       THEN [ok |-> FALSE, memory_cache |-> mem, redis_store |-> red,
             stats |-> Count(st, "errors")]
       ELSE [ok |-> ~(client /\ redis = "connection_error"),
             memory_cache |-> TTLCache_setitem(mem, key, value),
             redis_store |->
                 IF client /\ redis = "ok"
                 THEN [k \in DOMAIN red \cup {key} |->
                          IF k = key
                          THEN [value |-> json_dumps(value), expires_at |-> now + t]
                          ELSE red[k]]
                 ELSE red,
             stats |-> Count(st, "sets")]

OptimizedCacheService_delete(mem, red, client, st, key, redis) ==
    IF client /\ redis = "timeout"
    THEN [ok |-> FALSE, memory_cache |-> mem, redis_store |-> red,
          stats |-> Count(st, "errors")]
    ELSE [ok |-> TRUE, memory_cache |-> TTLCache_pop(mem, key),
          redis_store |-> IF client /\ redis = "ok"
                          THEN [k \in DOMAIN red \ {key} |-> red[k]]
                          ELSE red,
          stats |-> Count(st, "deletes")]

\* OptimizedCacheService.get_cache_stats: the mapping it returns.
OptimizedCacheService_get_cache_stats(mem, client, st) ==
    [cache_type |-> IF client THEN "hybrid" ELSE "memory",
     memory_cache_size |-> Len(mem), memory_cache_max_size |-> TTLCache_maxsize,
     hits |-> st.hits, misses |-> st.misses, sets |-> st.sets,
     deletes |-> st.deletes, errors |-> st.errors]

\* The methods each class defines: OptimizedCacheService has no exists.
has_exists == wiring = "default"

\* OptimizedCacheService._generate_query_cache_key: filters is part of the key.
OptimizedCacheService_generate_query_cache_key(qp, property_id) ==
    IF sorted_raises(qp.metrics) \/ sorted_raises(qp.dimensions)
    THEN Raised("TypeError")
    ELSE Returned([metrics |-> sorted(qp.metrics),
                   dimensions |-> sorted(qp.dimensions),
                   date_ranges |-> qp.date_ranges,
                   property_id |-> property_id,
                   filters |-> qp.filters,
                   limit |-> qp.limit])

(***************************************************************************)
(* CacheService.get_cached_query_result / cache_query_result: both catch   *)
(* every exception, the key error included.                                *)
(***************************************************************************)
\* A lookup that never finds anything.
get_cached_query_result_miss(mem, red, qp, property_id, redis_ok) == CacheMiss(mem)

get_cached_query_result(mem, red, qp, property_id, redis_ok) ==
    LET k == generate_query_cache_key(qp, property_id)
    IN IF k.raised THEN CacheMiss(mem)
       ELSE LET g == CacheService_get(mem, red, k.value, redis_ok)
            IN IF g.found THEN CacheHit(g.value.data, g.memory_cache) ELSE g

NoWrite(mem, red) ==
    [written |-> FALSE, key |-> None, ttl |-> 0, memory_cache |-> mem, redis_store |-> red]

cache_query_result(mem, red, qp, property_id, result, ttl, redis_ok) ==
    LET k == generate_query_cache_key(qp, property_id)
    IN IF k.raised THEN NoWrite(mem, red)
       ELSE LET cached_result == [data |-> result, cached_at |-> now,
                                  query_params |-> [qp |-> qp, property_id |-> property_id],
                                  ttl |-> IF ttl = 0 THEN CACHE_TTL_SECONDS ELSE ttl]
                w == CacheService_set(mem, red, k.value, cached_result, ttl, redis_ok)
            IN [written |-> w.ok, key |-> k.value, ttl |-> cached_result.ttl,
                memory_cache |-> w.memory_cache, redis_store |-> w.redis_store]

(***************************************************************************)
(* TrendAnalysisService.analyze_trend, as the router sees it: the body is  *)
(* inside try/except and always returns a report; outcome tells whether    *)
(* it is an analysis or an error report.                                   *)
(***************************************************************************)
analyze_trend(rows, metric_name, outcome) ==
    IF rows = <<>> THEN "error_report"
    ELSE IF outcome = "error" THEN "error_report"
    ELSE "report"

(***************************************************************************)
(* TrendAnalysisService on real rows.  A row is [kind, date, value]:       *)
(*   "ga4"              {"dimension_values": [date], "metric_values": [str(value)]} *)
(*   "flat"             {"date": date, metric_name: value}                 *)
(*   "empty_dimension"  {"dimension_values": [], "metric_values": [...]}   *)
(*   "non_numeric"      "ga4" with a metric value float() rejects          *)
(*   "missing_metric"   {"date": date} without the metric                  *)
(* Dates are integers in the order of their strings.  Values are integers, *)
(* on which the engine's float arithmetic below is exact.  The report      *)
(* keeps what the engine computes in integers (data points, count, min,    *)
(* max, range, anomalies) and which of its parts are present; direction,   *)
(* strength and forecast values of a successful analysis are numbers       *)
(* outside this model.                                                     *)
(***************************************************************************)
Point(date, value) == [date |-> date, value |-> value]

\* list.sort / sorted(): the stable order of the indices of a sequence of keys.
RECURSIVE SortedIndices(_)
SortedIndices(keys) ==
    IF Len(keys) = 0 THEN <<>>
    ELSE LET n == Len(keys)
             head == SortedIndices(SubSeq(keys, 1, n - 1))
             k == Cardinality({ i \in 1..Len(head) : keys[head[i]] <= keys[n] })
         IN SubSeq(head, 1, k) \o <<n>> \o SubSeq(head, k + 1, Len(head))

SortBy(s, keys) == LET order == SortedIndices(keys)
                   IN [i \in 1..Len(s) |-> s[order[i]]]

\* _extract_time_series: rows without a date or a metric are skipped, rows
\* whose value does not parse are dropped with a warning.
extract_time_series(data) ==
    LET usable == SelectSeq(data, LAMBDA row : row.kind \in {"ga4", "flat"})
        points == [i \in 1..Len(usable) |-> Point(usable[i].date, usable[i].value)]
    IN SortBy(points, [i \in 1..Len(points) |-> points[i].date])

Values(time_series) == [i \in 1..Len(time_series) |-> time_series[i].value]

\* statistics.quantiles(values, n=4), default method "exclusive", times 4.
quantiles(values) ==
    LET data == SortBy(values, values)
        ld == Len(data)
        m == ld + 1
        cut(i) == LET j0 == (i * m) \div 4
                      j == IF j0 < 1 THEN 1 ELSE IF j0 > ld - 1 THEN ld - 1 ELSE j0
                      delta == i * m - j * 4
                  IN data[j] * (4 - delta) + data[j + 1] * delta
    IN <<cut(1), cut(2), cut(3)>>

\* A detector that only looks above the upper bound.
detect_anomalies_high_only(time_series) ==
    IF Len(time_series) < 5 THEN <<>>
    ELSE LET values == Values(time_series)
             q == quantiles(values)
             upper8 == 2 * q[3] + 3 * (q[3] - q[1])
             RECURSIVE collect(_)
             collect(i) ==
                 IF i > Len(values) THEN <<>>
                 ELSE (IF 8 * values[i] > upper8
                       THEN <<[index |-> i - 1, date |-> time_series[i].date,
                               value |-> values[i], type |-> "outlier_high"]>>
                       ELSE <<>>) \o collect(i + 1)
         IN collect(1)

\* _detect_anomalies: bounds in eighths (q1 - 1.5 * iqr is (2*q1x4 - 3*iqrx4) / 8).
detect_anomalies(time_series) ==
    IF Len(time_series) < 5 THEN <<>>
    ELSE LET values == Values(time_series)
             q == quantiles(values)
             lower8 == 2 * q[1] - 3 * (q[3] - q[1])
             upper8 == 2 * q[3] + 3 * (q[3] - q[1])
             out == { i \in 1..Len(values) : 8 * values[i] < lower8 \/ 8 * values[i] > upper8 }
             RECURSIVE collect(_)
             collect(i) ==
                 IF i > Len(values) THEN <<>>
                 ELSE (IF i \in out
                       THEN <<[index |-> i - 1, date |-> time_series[i].date,
                               value |-> values[i],
                               type |-> IF 8 * values[i] > upper8 THEN "outlier_high"
                                        ELSE "outlier_low"]>>
                       ELSE <<>>) \o collect(i + 1)
         IN collect(1)

SeqMin(values) == CHOOSE v \in { values[i] : i \in 1..Len(values) } :
                      \A i \in 1..Len(values) : v <= values[i]
SeqMax(values) == CHOOSE v \in { values[i] : i \in 1..Len(values) } :
                      \A i \in 1..Len(values) : v >= values[i]

DefaultTrend == [direction |-> "stable", strength |-> "weak", confidence |-> 0]

TrendReport(error, message, trend, parts, data_points, statistics, anomalies) ==
    [raised |-> FALSE, error |-> error, message |-> message, trend |-> trend,
     parts |-> parts, data_points |-> data_points, statistics |-> statistics,
     anomalies |-> anomalies]

NoStatistics == [count |-> 0, min |-> 0, max |-> 0, range |-> 0]

\* _empty_trend_result / _insufficient_data_result: error, message and trend only.
empty_trend_result ==
    TrendReport(TRUE, "No data available", DefaultTrend, {"error", "message", "trend"},
                0, NoStatistics, <<>>)
insufficient_data_result ==
    TrendReport(TRUE, "Insufficient data points", DefaultTrend,
                {"error", "message", "trend"}, 0, NoStatistics, <<>>)

\* An engine that analyses whatever it extracted, however few points.
analyze_trend_rows_unchecked(data) ==
    LET time_series == extract_time_series(data)
        values == Values(time_series)
    IN IF time_series = <<>> THEN empty_trend_result
       ELSE TrendReport(FALSE, "", [direction |-> "computed", strength |-> "computed",
                                    confidence |-> "computed"],
                        {"metric_name", "time_period", "trend", "statistics",
                         "change_analysis", "anomalies", "forecast", "insights",
                         "analysis_timestamp"},
                        Len(time_series),
                        [count |-> Len(values), min |-> SeqMin(values),
                         max |-> SeqMax(values),
                         range |-> SeqMax(values) - SeqMin(values)],
                        detect_anomalies(time_series))

\* TrendAnalysisService.analyze_trend (lines 66-126) on rows.
analyze_trend_rows(data) ==
    IF data = <<>> THEN empty_trend_result
    ELSE LET time_series == extract_time_series(data)
             values == Values(time_series)
         IN IF Len(time_series) < 3 THEN insufficient_data_result
            ELSE TrendReport(FALSE, "", [direction |-> "computed", strength |-> "computed",
                                         confidence |-> "computed"],
                             {"metric_name", "time_period", "trend", "statistics",
                              "change_analysis", "anomalies", "forecast", "insights",
                              "analysis_timestamp"},
                             Len(time_series),
                             [count |-> Len(values), min |-> SeqMin(values),
                              max |-> SeqMax(values),
                              range |-> SeqMax(values) - SeqMin(values)],
                             detect_anomalies(time_series))

(***************************************************************************)
(* SmartRouter._should_perform_trend_analysis: `dim in [...]` compares the *)
(* dimension itself with the four names, so only a bare string can match.  *)
(***************************************************************************)
time_dimensions == {"date", "dateHour", "week", "month"}

should_perform_trend_analysis(qp, result) ==
    /\ \E i \in 1..Len(qp.dimensions) :
          qp.dimensions[i].shape = "str" /\ qp.dimensions[i].name \in time_dimensions
    /\ Len(result.rows) >= 3

\* SmartRouter._get_query_type: dimensions[0].get(...) when there is exactly one dimension.
get_query_type_raises(qp) == Len(qp.dimensions) = 1 /\ qp.dimensions[1].shape = "str"

(***************************************************************************)
(* The adapters as the router holds them.                                  *)
(***************************************************************************)
ga4_service_execute_query(qp, property_id, env) ==
    IF wiring = "container"
    THEN OptimizedGA4Service_execute_query(qp, property_id, env.ga4)
    ELSE GA4Service_execute_query(qp, property_id, env.ga4)

bigquery_service_execute_query(qp, property_id, env) ==
    BigQueryService_execute_query(qp, property_id, env.bq)

\* The container injects OptimizedCacheService, which has neither
\* get_cached_query_result nor cache_query_result: the attribute lookup raises.
\* A cache service that has the two query methods under either wiring.
every_cache_has_query_methods == TRUE

cache_service_has_query_methods == wiring = "default"

Invocation(adapter, r) ==
    [adapter |-> adapter,
     outcome |-> IF r.raised THEN "raised" ELSE IF r.value.error THEN "error" ELSE "ok",
     rows |-> IF r.raised THEN <<>> ELSE r.value.rows]

(***************************************************************************)
(* SmartRouter._try_backup_source: [invoked, none, value].                 *)
(***************************************************************************)
NoBackup == [invoked |-> <<>>, none |-> TRUE, value |-> None]

\* A backup step that tries the warehouse without asking is_available().
try_backup_source_unchecked(qp, property_id, failed_source, env) ==
    IF failed_source = "bigquery"
    THEN LET r == ga4_service_execute_query(qp, property_id, env)
         IN [invoked |-> <<Invocation("ga4_api", r)>>, none |-> r.raised,
             value |-> IF r.raised THEN None ELSE r.value]
    ELSE IF failed_source = "ga4_api"
    THEN LET r == bigquery_service_execute_query(qp, property_id, env)
         IN [invoked |-> <<Invocation("bigquery", r)>>, none |-> r.raised,
             value |-> IF r.raised THEN None ELSE r.value]
    ELSE NoBackup

try_backup_source(qp, property_id, failed_source, env) ==
    IF failed_source = "bigquery"
    THEN LET r == ga4_service_execute_query(qp, property_id, env)
         IN [invoked |-> <<Invocation("ga4_api", r)>>, none |-> r.raised,
             value |-> IF r.raised THEN None ELSE r.value]
    ELSE IF failed_source = "ga4_api" /\ is_available
    THEN LET r == bigquery_service_execute_query(qp, property_id, env)
         IN [invoked |-> <<Invocation("bigquery", r)>>, none |-> r.raised,
             value |-> IF r.raised THEN None ELSE r.value]
    ELSE NoBackup

(***************************************************************************)
(* The outcome of one execute_query call.                                  *)
(***************************************************************************)
Outcome(path, result, invoked, decision, select_calls, trend_calls, hit, write, mem, red) ==
    [raised |-> FALSE, path |-> path, result |-> result, invoked |-> invoked,
     selected |-> decision.source, scored |-> decision.scored,
     select_calls |-> select_calls, trend_calls |-> trend_calls,
     cache_hit |-> hit,
     cache_write |-> [called |-> write.called, written |-> write.written,
                      key |-> write.key, ttl |-> write.ttl, error |-> write.error],
     memory_cache |-> mem, redis_store |-> red]

NoDecision == [raised |-> FALSE, source |-> Absent, reasoning |-> Absent, scored |-> FALSE]
NoCacheWrite == [called |-> FALSE, written |-> FALSE, key |-> None, ttl |-> 0, error |-> FALSE]

\* An except branch whose own ga4_service call is not guarded: its exception leaves the call.
emergency_fallback_unguarded(qp, property_id, env, e, invoked, decision, select_calls, mem, red) ==
    LET r == ga4_service_execute_query(qp, property_id, env)
        result == IF r.raised
                  THEN Result(TRUE, {e}, <<>>, <<>>, "error", FALSE)
                  ELSE [r.value EXCEPT !.data_source = "ga4_api_fallback",
                                       !.routing_reasoning = "Emergency fallback"]
    IN [Outcome("emergency", result, invoked \o <<Invocation("ga4_api", r)>>,
                decision, select_calls, 0, FALSE, NoCacheWrite, mem, red)
           EXCEPT !.raised = r.raised]

\* The except branch of execute_query (lines 136-155): one ga4_service call.
emergency_fallback(qp, property_id, env, e, invoked, decision, select_calls, mem, red) ==
    LET r == ga4_service_execute_query(qp, property_id, env)
        result == IF r.raised
                  THEN [Result(TRUE, {e}, <<>>, <<>>, "error", FALSE)
                           EXCEPT !.routing_reasoning = "All sources failed"]
                  ELSE [r.value EXCEPT !.data_source = "ga4_api_fallback",
                                       !.routing_reasoning = "Emergency fallback"]
    IN Outcome("emergency", result, invoked \o <<Invocation("ga4_api", r)>>,
               decision, select_calls, 0, FALSE, NoCacheWrite, mem, red)

\* A merge that adds the backup's failure reason to the primary's error result.
fallback_result_both_reasons(result1, backup) ==
    IF result1.error /\ ~backup.none /\ ~backup.value.error
    THEN [backup.value EXCEPT !.routing_reasoning = "fallback"]
    ELSE IF result1.error /\ ~backup.none
    THEN [result1 EXCEPT !.message = result1.message \cup backup.value.message]
    ELSE result1

\* Lines 108-110: the backup's result replaces the primary's only when it is
\* there and is no error result.
fallback_result(result1, backup) ==
    IF result1.error /\ ~backup.none /\ ~backup.value.error
    THEN [backup.value EXCEPT !.routing_reasoning = "fallback"]
    ELSE result1

\* A cache step that writes whatever the result is.
should_cache_any(result) == TRUE

\* Line 126: the guard of the cache write.
should_cache(result) == ~result.error

\* Lines 112-123: the trend step.  Whatever analyze_trend returns is stored
\* under trend_analysis; metrics[0] of an empty metric list raises inside the
\* try block and leaves the result as it is.
trend_step(qp, result, env) ==
    LET trend == ~result.error /\ should_perform_trend_analysis(qp, result)
        called == trend /\ qp.metrics # <<>>
    IN [called |-> called,
        result |-> IF called
                   THEN [result EXCEPT !.trend_analysis =
                            analyze_trend(result.rows, qp.metrics[1], env.trend)]
                   ELSE result]

\* Lines 125-132: the cache step.
cache_step(qp, property_id, env, result, mem, red) ==
    LET w == IF should_cache(result)
             THEN cache_query_result(mem, red, qp, property_id, result,
                                     determine_cache_ttl(qp), env.redis_set_ok)
             ELSE NoWrite(mem, red)
    IN [write |-> [called |-> should_cache(result), written |-> w.written, key |-> w.key,
                   ttl |-> IF should_cache(result) THEN determine_cache_ttl(qp) ELSE 0,
                   error |-> result.error],
        memory_cache |-> w.memory_cache, redis_store |-> w.redis_store]

\* Steps 4-6 of execute_query, from the primary adapter's result on.
after_primary(qp, property_id, env, decision, primary, first, mem, red) ==
    LET result1 == [first.value EXCEPT
                        !.data_source = decision.source,
                        !.routing_reasoning = decision.reasoning]
        backup == IF result1.error
                  THEN try_backup_source(qp, property_id, decision.source, env)
                  ELSE NoBackup
        result2 == fallback_result(result1, backup)
        t == trend_step(qp, result2, env)
        w == cache_step(qp, property_id, env, t.result, mem, red)
    IN Outcome("source", t.result, <<Invocation(primary, first)>> \o backup.invoked,
               decision, 1, IF t.called THEN 1 ELSE 0, FALSE, w.write,
               w.memory_cache, w.redis_store)

(***************************************************************************)
(* SmartRouter.execute_query                                               *)
(***************************************************************************)
execute_query(qp, property_id, env) ==
    IF ~cache_service_has_query_methods
    THEN emergency_fallback(qp, property_id, env, "AttributeError", <<>>, NoDecision, 0,
                            memory_cache, redis_store)
    ELSE
    LET cached == get_cached_query_result(memory_cache, redis_store, qp, property_id,
                                          env.redis_get_ok)
        mem == cached.memory_cache
    IN IF cached.found
       THEN Outcome("cache", cached.value, <<>>, NoDecision, 0, 0, TRUE, NoCacheWrite,
                    mem, redis_store)
       ELSE
       LET decision == select_data_source(qp)
       IN IF decision.raised \/ get_query_type_raises(qp)
          THEN emergency_fallback(qp, property_id, env, "router_error", <<>>,
                                  NoDecision, 1, mem, redis_store)
          ELSE
          LET primary == IF decision.source = "bigquery" THEN "bigquery" ELSE "ga4_api"
              first == IF primary = "bigquery"
                       THEN bigquery_service_execute_query(qp, property_id, env)
                       ELSE ga4_service_execute_query(qp, property_id, env)
          IN IF first.raised
             THEN emergency_fallback(qp, property_id, env, first.value,
                                     <<Invocation(primary, first)>>, decision, 1,
                                     mem, redis_store)
             ELSE after_primary(qp, property_id, env, decision, primary, first,
                                mem, redis_store)

(***************************************************************************)
(* Inputs of the model                                                     *)
(***************************************************************************)
PropertyIds == {None, "prop1"}

Envs == [ga4 : {"ok", "fail"}, bq : {"ok", "fail"}, trend : {"ok", "error"},
         redis_get_ok : BOOLEAN, redis_set_ok : BOOLEAN]

\* An input of a call counts only where the call can consult it: the Redis
\* server when a Redis client exists, the trend engine when a dimension is a
\* bare string; and the server is up or down for the whole call.
EnvFor(qp) ==
    { env \in Envs :
        /\ env.redis_get_ok = env.redis_set_ok
        /\ (~redis_client => env.redis_get_ok)
        /\ (~HasStrRef(qp.dimensions) => env.trend = "ok") }

\* Descriptors sent through execute_query.
RecentRange == <<DateRange(DaysAgo(7), Today)>>
HistoricComparison ==
    <<DateRange(DaysAgo(400), Yesterday), DateRange(DaysAgo(800), DaysAgo(401))>>

RouterDescriptors ==
    { Descriptor(m, d, r, FALSE, 10) :
        m \in {MetricList(1, "obj"), MetricList(2, "obj")},
        d \in {<<>>, DimList(<<"date">>, "str")},
        r \in {RecentRange, HistoricComparison} }

\* Descriptors with one dimension: a time dimension or another one, in the
\* shape the adapters and the query parser use ({"name": ...}) or as a bare
\* string.
TrendDescriptors ==
    { Descriptor(MetricList(1, "obj"), d, r, FALSE, 10) :
        d \in {DimList(<<"date">>, "obj"), DimList(<<"week">>, "obj"),
               DimList(<<"pageTitle">>, "obj"), DimList(<<"date">>, "str")},
        r \in {RecentRange, HistoricComparison} }

\* Descriptors that come in pairs differing only in whether they filter.
FilterDescriptors ==
    { Descriptor(MetricList(1, "obj"), d, r, f, 10) :
        d \in {<<>>, DimList(<<"date">>, "obj")},
        r \in {RecentRange, HistoricComparison},
        f \in BOOLEAN }

\* Descriptors and fetched results given to steps 5-6: a time dimension as
\* a bare string or as an object, no dimension; a result of fewer than 3
\* rows, of 3 rows, and an error result.
StepDescriptors ==
    { Descriptor(MetricList(n, "obj"), d, r, FALSE, 10) :
        n \in {0, 1},
        d \in {<<>>, DimList(<<"date">>, "str"), DimList(<<"date">>, "obj"),
               DimList(<<"week">>, "str")},
        r \in {RecentRange, HistoricComparison} }

StepResults ==
    { [Result(FALSE, {}, Rows("ga4_row", n), Rows("ga4_total", 1), "ga4_api", FALSE)
          EXCEPT !.routing_reasoning = "BigQuery routing disabled in settings"] :
        n \in {ApiRows - 1, ApiRows} }
    \cup { [Result(FALSE, {}, Rows("bq_row", ApiRows), Rows("bq_total", 1), "bigquery", FALSE)
              EXCEPT !.routing_reasoning = "Selected by score"],
           [GA4Service_error EXCEPT !.data_source = "ga4_api",
                                    !.routing_reasoning = "BigQuery service not available"] }

\* Descriptors given to the selector and to the TTL policy.
RouteStarts == {Today, Yesterday, DaysAgo(7), DaysAgo(31), DaysAgo(91), DaysAgo(400),
                DateStr("date", 500), DateStr("badDaysAgo", 0)}
RouteEnds == {Today, Yesterday}
SecondRanges == {DateRange(DaysAgo(60), DaysAgo(31)), DateRange(DaysAgo(14), Today)}

RouteDateRangeLists ==
    {<<>>}
    \cup { <<DateRange(s, e)>> : s \in RouteStarts, e \in RouteEnds }
    \cup { <<DateRange(s, e), r2>> : s \in RouteStarts, e \in RouteEnds, r2 \in SecondRanges }

RouteDescriptors ==
    { Descriptor(MetricList(n, shape), DimList(names, shape), r, f, limit) :
        n \in 0..MaxMetrics, shape \in {"obj", "str"}, names \in DimNameLists,
        r \in RouteDateRangeLists, f \in BOOLEAN, limit \in {10, 101} }

TickSteps == {60}

(***************************************************************************)
(* State after construction                                                *)
(***************************************************************************)
EmptyStore == [k \in {} |-> None]

NoCall ==
    [qp |-> Descriptor(<<>>, <<>>, <<>>, FALSE, 0), property_id |-> None, at |-> 0,
     get_fault |-> FALSE, set_fault |-> FALSE,
     raised |-> FALSE, path |-> "none",
     result |-> Result(FALSE, {}, <<>>, <<>>, Absent, FALSE),
     invoked |-> <<>>, selected |-> Absent, scored |-> FALSE,
     select_calls |-> 0, trend_calls |-> 0, cache_hit |-> FALSE,
     cache_write |-> NoCacheWrite]

NoRoute ==
    [valid |-> FALSE, qp |-> Descriptor(<<>>, <<>>, <<>>, FALSE, 0),
     decision |-> NoDecision, ttl |-> 0, evaluations |-> 0]

NoStep ==
    [valid |-> FALSE, qp |-> Descriptor(<<>>, <<>>, <<>>, FALSE, 0),
     given |-> Result(FALSE, {}, <<>>, <<>>, Absent, FALSE), trend |-> "ok",
     redis_set_ok |-> TRUE,
     result |-> Result(FALSE, {}, <<>>, <<>>, Absent, FALSE),
     trend_calls |-> 0, cache_write |-> NoCacheWrite]

\* Direct use of the cache service: keys, values, ttl arguments (0 stands for
\* ttl=None) and the outcome of the Redis command of a call.
CacheKeys == {"k1"}
CacheValues == {PyValue("dict", 1), PyValue("tuple", 2)}
CacheTTLs == {live_ttl, 0}
RedisOutcomes(client) == IF client THEN {"ok", "connection_error", "timeout"} ELSE {"ok"}

NoStats == [hits |-> 0, misses |-> 0, sets |-> 0, deletes |-> 0, errors |-> 0]

\* What a cache method returned: a value, or None.
Got(value) == [none |-> FALSE, value |-> value]
Nothing == [none |-> TRUE, value |-> PyValue("none", 0)]
Bool(b) == Got(PyValue("bool", IF b THEN 1 ELSE 0))

NeverSet == [set |-> FALSE, at |-> 0, ttl |-> 0, value |-> PyValue("none", 0)]

NoPrev == [kind |-> "none", key |-> "k1", value |-> PyValue("none", 0), ttl |-> 0,
           at |-> 0, redis |-> "ok", returned |-> Nothing]

NoOp ==
    [n |-> 0, kind |-> "none", key |-> "k1", value |-> PyValue("none", 0), ttl |-> 0,
     at |-> 0, redis |-> "ok", returned |-> Nothing, raised |-> FALSE,
     report |-> [error |-> FALSE],
     gets |-> 0, sets |-> 0, written |-> [k \in CacheKeys |-> NeverSet], prev |-> NoPrev]

NoAnalysis == [valid |-> FALSE, data |-> <<>>, report |-> [raised |-> FALSE]]
NoContainer == [constructed |-> FALSE]
NoRetry == [pc |-> "idle", max_retries |-> 0, attempt |-> 0, calls |-> 0, slept |-> 0,
            log |-> <<>>, last_error |-> "none", outcome |-> "none"]
NoInflight == <<>>

\* None of the components exercised on their own is in use.
UnitsIdle ==
    /\ analysis = NoAnalysis
    /\ container = NoContainer
    /\ retry = NoRetry
    /\ inflight = NoInflight

\* BigQueryService.__init__ builds the client only when routing is enabled;
\* GA4Service.__init__ builds the client only outside mock mode.
InitConfig ==
    /\ settings \in [ENABLE_BIGQUERY_ROUTING : BOOLEAN, USE_MOCK_GA4_API : BOOLEAN]
    /\ bq_client \in BOOLEAN
    /\ bq_client => settings.ENABLE_BIGQUERY_ROUTING
    /\ ga4_client \in BOOLEAN
    /\ ga4_client => ~settings.USE_MOCK_GA4_API

InitState ==
    /\ now = 0
    /\ memory_cache = <<>>
    /\ redis_store = EmptyStore
    /\ calls = 0
    /\ last = NoCall

Init ==
    /\ InitConfig
    /\ redis_client \in BOOLEAN
    /\ wiring \in {"default", "container"}
    /\ InitState
    /\ route = NoRoute
    /\ step = NoStep
    /\ stats = NoStats
    /\ op = NoOp
    /\ UnitsIdle

\* The selector and the TTL policy are pure in the descriptor and the
\* configuration: the descriptor is drawn here and Route applies them to it.
InitRoute ==
    /\ InitConfig
    /\ ga4_client = FALSE
    /\ redis_client = FALSE
    /\ wiring = "default"
    /\ InitState
    /\ route \in { [NoRoute EXCEPT !.qp = qp] : qp \in RouteDescriptors }
    /\ step = NoStep
    /\ stats = NoStats
    /\ op = NoOp
    /\ UnitsIdle

\* Descriptors for the scoring in doubles: every combination of the amounts
\* the three factor functions add up.
ScoreDescriptors ==
    { Descriptor(MetricList(n, "obj"), DimList(names, "obj"), r, f, limit) :
        n \in {1, 3, MaxMetrics}, names \in DimNameLists,
        r \in {<<>>} \cup { <<DateRange(s, Today)>> : s \in RouteStarts }
               \cup { <<DateRange(s, Today), DateRange(DaysAgo(14), Today)>> :
                         s \in RouteStarts },
        f \in BOOLEAN, limit \in {10, 101} }

NoScores == [ga4_api |-> <<>>, bigquery |-> <<>>]

InitScore ==
    /\ InitConfig
    /\ ga4_client = FALSE
    /\ redis_client = FALSE
    /\ wiring = "default"
    /\ InitState
    /\ route \in { [valid |-> FALSE, qp |-> qp, decision |-> NoDecision, ttl |-> 0,
                     evaluations |-> 0, scores |-> NoScores] : qp \in ScoreDescriptors }
    /\ step = NoStep
    /\ stats = NoStats
    /\ op = NoOp
    /\ UnitsIdle

\* The router serves requests while the selector is asked again and again
\* about one descriptor.
SelectDescriptors == { qp \in RouterDescriptors : Len(qp.metrics) = 1 }

InitSelect ==
    /\ InitConfig
    /\ redis_client = FALSE
    /\ wiring = "default"
    /\ InitState
    /\ route \in { [NoRoute EXCEPT !.qp = qp] : qp \in SelectDescriptors }
    /\ step = NoStep
    /\ stats = NoStats
    /\ op = NoOp
    /\ UnitsIdle

\* A cache service of either class, with or without a Redis client, nothing
\* stored and nothing counted.
InitCache ==
    /\ settings = [ENABLE_BIGQUERY_ROUTING |-> FALSE, USE_MOCK_GA4_API |-> FALSE]
    /\ bq_client = FALSE
    /\ ga4_client = FALSE
    /\ redis_client \in BOOLEAN
    /\ wiring \in {"default", "container"}
    /\ InitState
    /\ route = NoRoute
    /\ step = NoStep
    /\ stats = NoStats
    /\ op = NoOp
    /\ UnitsIdle

\* Steps 5-6 work on the descriptor and on the result steps 3-4 hand over:
\* both are drawn here and TrendAndCache applies the two steps to them.
InitStep ==
    /\ InitConfig
    /\ redis_client \in BOOLEAN
    /\ wiring = "default"
    /\ InitState
    /\ route = NoRoute
    /\ step \in { [NoStep EXCEPT !.qp = qp, !.given = r, !.trend = t, !.redis_set_ok = ok] :
                     qp \in StepDescriptors, r \in StepResults, t \in {"ok", "error"},
                     ok \in (IF redis_client THEN BOOLEAN ELSE {TRUE}) }
    /\ stats = NoStats
    /\ op = NoOp
    /\ UnitsIdle

\* The units below are exercised on their own, beside a router that serves
\* nothing.
RouterIdle ==
    /\ settings = [ENABLE_BIGQUERY_ROUTING |-> FALSE, USE_MOCK_GA4_API |-> FALSE]
    /\ bq_client = FALSE
    /\ ga4_client = FALSE
    /\ redis_client = FALSE
    /\ wiring = "default"
    /\ InitState
    /\ route = NoRoute
    /\ step = NoStep
    /\ stats = NoStats
    /\ op = NoOp

\* Rows handed to the trend engine: up to MaxRows rows of any kind, or a
\* longer series of GA4 rows, or the nine days of the anomaly test; dates
\* ascending, descending or all equal.
MaxRows == 3
MaxSeries == 7
TrendValues == {1, 10, 100}
Row(kind, date, value) == [kind |-> kind, date |-> date, value |-> value]
TrendRowShapes ==
    { Row(k, 0, v) : k \in {"ga4", "flat"}, v \in TrendValues }
    \cup { Row(k, 0, 0) : k \in {"empty_dimension", "non_numeric", "missing_metric"} }
Dated(shapes, order) ==
    [i \in 1..Len(shapes) |->
        [shapes[i] EXCEPT !.date = CASE order = "ascending" -> i
                                     [] order = "descending" -> Len(shapes) + 1 - i
                                     [] OTHER -> 1]]
NineDays == <<10, 11, 9, 10, 12, 11, 100, 10, 9>>
NineDayRows == [i \in 1..Len(NineDays) |-> Row("ga4", i, NineDays[i])]
TrendInputs ==
    { Dated(s, o) : s \in UNION { [1..n -> TrendRowShapes] : n \in 0..MaxRows },
                    o \in {"ascending", "descending", "equal"} }
    \cup { Dated(s, o) : s \in UNION { [1..n -> { Row("ga4", 0, v) : v \in TrendValues }] :
                                           n \in (MaxRows + 1)..MaxSeries },
                          o \in {"ascending", "descending"} }
    \cup { NineDayRows }

InitStats ==
    /\ RouterIdle
    /\ analysis \in { [NoAnalysis EXCEPT !.data = d] : d \in TrendInputs }
    /\ container = NoContainer
    /\ retry = NoRetry
    /\ inflight = NoInflight

\* A CacheService without Redis whose store has been filled, by earlier
\* sets, to its maximum or to one entry less.  Entries were created 60 or
\* 120 seconds ago with the short or the default TTL.
MaxEvictOps == 1
ClearPatterns == {"*", "k*", "query:*"}
Entry(key, created_at, ttl) ==
    [key |-> key, value |-> PyValue("dict", 1), expires_at |-> created_at + ttl,
     created_at |-> created_at]
FilledStore(n, shape, named) ==
    [i \in 1..n |->
        LET key == IF named /\ i = 1 THEN "k1" ELSE "f" \o ToString(i)
        IN CASE shape = "fresh" -> Entry(key, -60, CACHE_TTL_SECONDS)
             [] shape = "aging" ->
                    Entry(key, IF 3 * i <= n THEN -120 ELSE -60, CACHE_TTL_SECONDS)
             [] shape = "rewritten" ->
                    Entry(key, IF 2 * i <= n THEN -60 ELSE -120, CACHE_TTL_SECONDS)
             [] shape = "few_expired" ->
                    IF i <= 3 THEN Entry(key, -120, live_ttl)
                    ELSE Entry(key, -60, CACHE_TTL_SECONDS)
             [] shape = "all_expired" -> Entry(key, -120, live_ttl)
             [] OTHER -> Entry(key, -60, IF i % 2 = 0 THEN live_ttl ELSE CACHE_TTL_SECONDS)]
StoreShapes == {"fresh", "aging", "rewritten", "few_expired", "all_expired", "expiring"}
FilledStores ==
    { FilledStore(n, shape, named) :
        n \in {max_memory_cache_size - 1, max_memory_cache_size},
        shape \in StoreShapes, named \in BOOLEAN }

InitEvict ==
    /\ settings = [ENABLE_BIGQUERY_ROUTING |-> FALSE, USE_MOCK_GA4_API |-> FALSE]
    /\ bq_client = FALSE
    /\ ga4_client = FALSE
    /\ redis_client = FALSE
    /\ wiring = "default"
    /\ now = 0
    /\ memory_cache \in FilledStores
    /\ redis_store = EmptyStore
    /\ calls = 0
    /\ last = NoCall
    /\ route = NoRoute
    /\ step = NoStep
    /\ stats = NoStats
    /\ op = NoOp
    /\ UnitsIdle

\* An OptimizedCacheService on which MaxTasks coroutines call set on the same
\* key, each with its own value, before any of them has run.
MaxTasks == 2
TaskValues == {PyValue("dict", 1), PyValue("dict", 2)}
Task(value, pc, ok) == [value |-> value, pc |-> pc, ok |-> ok]

InitTasks ==
    /\ settings = [ENABLE_BIGQUERY_ROUTING |-> FALSE, USE_MOCK_GA4_API |-> FALSE]
    /\ bq_client = FALSE
    /\ ga4_client = FALSE
    /\ redis_client \in BOOLEAN
    /\ wiring = "container"
    /\ InitState
    /\ route = NoRoute
    /\ step = NoStep
    /\ stats = NoStats
    /\ op = NoOp
    /\ analysis = NoAnalysis
    /\ container = NoContainer
    /\ retry = NoRetry
    /\ inflight \in { [i \in 1..MaxTasks |-> Task(values[i], "created", FALSE)] :
                         values \in [1..MaxTasks -> TaskValues] }

(***************************************************************************)
(* ServiceContainer.  Instances are numbered in the order the factories    *)
(* create them; 0 stands for None.  runs counts the factory runs and       *)
(* returned collects the instances get has returned, per name, since the   *)
(* container was built or last reset.                                      *)
(***************************************************************************)
MaxInstances == 4
MaxResets == 2
SingletonNames == {"cache_service", "ga4_service"}
FactoryNames == {"query_parser"}
ServiceNames == SingletonNames \cup FactoryNames \cup {"unregistered"}
NoInstance == 0

\* ServiceContainer.__init__ with _register_default_services.
NewContainer ==
    [constructed |-> TRUE,
     services |-> << >>,
     factories |-> SingletonNames \cup FactoryNames,
     singletons |-> [n \in SingletonNames |-> NoInstance],
     instances |-> 0, resets |-> 0,
     runs |-> [n \in ServiceNames |-> 0],
     returned |-> [n \in ServiceNames |-> {}],
     got |-> [name |-> "none", instance |-> NoInstance, raised |-> FALSE]]

InitContainer ==
    /\ RouterIdle
    /\ analysis = NoAnalysis
    /\ container = NewContainer
    /\ retry = NoRetry
    /\ inflight = NoInflight

\* A call of _execute_with_retry about to start, with max_retries as given by
\* the caller, default_max_retries when left out.
MaxRetries == 4
default_max_retries == 3
InitRetry ==
    /\ RouterIdle
    /\ analysis = NoAnalysis
    /\ container = NoContainer
    /\ retry \in { [NoRetry EXCEPT !.max_retries = m] : m \in 0..MaxRetries }
    /\ inflight = NoInflight

config == <<settings, bq_client, ga4_client, redis_client, wiring>>
router == <<settings, bq_client, ga4_client, redis_client, wiring, now, memory_cache,
            redis_store, calls, last, route, step, stats, op>>

(***************************************************************************)
(* Actions                                                                 *)
(***************************************************************************)
\* One execute_query(qp, property_id) call, from entry to return, for a
\* descriptor of the given set.
ExecuteQueryOn(descriptors) ==
    /\ calls < MaxCalls
    /\ \E qp \in descriptors, property_id \in PropertyIds :
      \E env \in EnvFor(qp) :
        \E o \in {execute_query(qp, property_id, env)} :
           /\ last' = [qp |-> qp, property_id |-> property_id, at |-> now,
                       get_fault |-> cache_service_has_query_methods /\ redis_client
                                     /\ ~env.redis_get_ok,
                       set_fault |-> o.cache_write.called /\ redis_client
                                     /\ ~env.redis_set_ok,
                       raised |-> o.raised, path |-> o.path, result |-> o.result,
                       invoked |-> o.invoked, selected |-> o.selected,
                       scored |-> o.scored, select_calls |-> o.select_calls,
                       trend_calls |-> o.trend_calls, cache_hit |-> o.cache_hit,
                       cache_write |-> o.cache_write]
           /\ memory_cache' = o.memory_cache
           /\ redis_store' = o.redis_store
    /\ calls' = calls + 1
    /\ UNCHANGED <<config, now, route, step, stats, op, units>>

ExecuteQuery == ExecuteQueryOn(RouterDescriptors)

\* A call with one of the descriptors the selector is asked about.
ExecuteSelectQuery == ExecuteQueryOn(SelectDescriptors)

\* A call with a descriptor with or without filters.
ExecuteFilterQuery == ExecuteQueryOn(FilterDescriptors)

\* A call with a descriptor that has one dimension.
ExecuteTrendQuery == ExecuteQueryOn(TrendDescriptors)

\* Time passes; the Redis server drops the keys whose time to live is over.
Tick ==
    /\ \E dt \in TickSteps :
        /\ now + dt <= MaxTime
        /\ now' = now + dt
        /\ redis_store' = [k \in { k \in DOMAIN redis_store :
                                     now + dt < redis_store[k].expires_at } |->
                              redis_store[k]]
    /\ UNCHANGED <<config, memory_cache, calls, last, route, step, stats, op, units>>

\* One evaluation of _select_data_source and _determine_cache_ttl.
Route ==
    /\ ~route.valid
    /\ route' = [valid |-> TRUE, qp |-> route.qp,
                 decision |-> select_data_source(route.qp),
                 ttl |-> determine_cache_ttl(route.qp),
                 evaluations |-> route.evaluations + 1]
    /\ UNCHANGED <<config, now, memory_cache, redis_store, calls, last, step, stats, op, units>>

\* _select_data_source on the drawn descriptor, its scores kept as the
\* doubles the code computes.
Score ==
    /\ ~route.valid
    /\ \E d \in {select_data_source(route.qp)} :
          IF d.raised \/ ~d.scored
          THEN route' = [route EXCEPT !.valid = TRUE, !.decision = d,
                                      !.evaluations = route.evaluations + 1]
          ELSE \E s \in {scores(route.qp)} :
                  route' = [route EXCEPT !.valid = TRUE,
                                         !.decision = [d EXCEPT !.source = max_score(s)],
                                         !.evaluations = route.evaluations + 1,
                                         !.scores = s]
    /\ UNCHANGED <<config, now, memory_cache, redis_store, calls, last, step, stats, op, units>>

\* Steps 5-6 of execute_query (lines 112-132) on the drawn descriptor and result.
TrendAndCache ==
    /\ ~step.valid
    /\ \E t \in {trend_step(step.qp, step.given, [trend |-> step.trend])} :
       \E w \in {cache_step(step.qp, "prop1", [redis_set_ok |-> step.redis_set_ok],
                            t.result, memory_cache, redis_store)} :
          /\ step' = [step EXCEPT !.valid = TRUE, !.result = t.result,
                                  !.trend_calls = IF t.called THEN 1 ELSE 0,
                                  !.cache_write = w.write]
          /\ memory_cache' = w.memory_cache
          /\ redis_store' = w.redis_store
    /\ UNCHANGED <<config, now, calls, last, route, stats, op, units>>

\* One more _select_data_source(route.qp) call, whatever the router has
\* served and cached in between.
Select ==
    /\ route.evaluations < MaxSelects
    /\ route' = [route EXCEPT !.valid = TRUE,
                              !.decision = select_data_source(route.qp),
                              !.evaluations = route.evaluations + 1]
    /\ UNCHANGED <<config, now, memory_cache, redis_store, calls, last, step, stats, op, units>>

\* The cache methods of the class in use ("default": CacheService,
\* "container": OptimizedCacheService) on the current stores:
\* [returned, raised, memory_cache, redis_store, redis_client, stats].
CacheCall(returned, raised, mem, red, client, st) ==
    [returned |-> returned, raised |-> raised, memory_cache |-> mem, redis_store |-> red,
     redis_client |-> client, stats |-> st]

cache_get(key, redis) ==
    IF wiring = "default"
    THEN LET g == CacheService_get(memory_cache, redis_store, key, redis = "ok")
         IN CacheCall(IF g.found THEN Got(g.value) ELSE Nothing, FALSE,
                      g.memory_cache, redis_store, redis_client, stats)
    ELSE LET g == OptimizedCacheService_get(memory_cache, redis_store, redis_client,
                                            stats, key, redis)
         IN CacheCall(IF g.found THEN Got(g.value) ELSE Nothing, FALSE,
                      g.memory_cache, redis_store, g.redis_client, g.stats)

cache_set(key, value, ttl, redis) ==
    IF wiring = "default"
    THEN LET w == CacheService_set(memory_cache, redis_store, key, value, ttl, redis = "ok")
         IN CacheCall(Bool(w.ok), FALSE, w.memory_cache, w.redis_store, redis_client, stats)
    ELSE LET w == OptimizedCacheService_set(memory_cache, redis_store, redis_client,
                                            stats, key, value, ttl, redis)
         IN CacheCall(Bool(w.ok), FALSE, w.memory_cache, w.redis_store, redis_client,
                      w.stats)

cache_delete(key, redis) ==
    IF wiring = "default"
    THEN LET d == CacheService_delete(memory_cache, redis_store, key, redis = "ok")
         IN CacheCall(Bool(d.ok), FALSE, d.memory_cache, d.redis_store, redis_client, stats)
    ELSE LET d == OptimizedCacheService_delete(memory_cache, redis_store, redis_client,
                                               stats, key, redis)
         IN CacheCall(Bool(d.ok), FALSE, d.memory_cache, d.redis_store, redis_client,
                      d.stats)

\* cache.exists(key): AttributeError on a class that has no such method.
cache_exists(key, redis) ==
    IF has_exists
    THEN LET e == CacheService_exists(memory_cache, redis_store, key, redis = "ok")
         IN CacheCall(Bool(e.value), FALSE, e.memory_cache, redis_store, redis_client,
                      stats)
    ELSE CacheCall(Nothing, TRUE, memory_cache, redis_store, redis_client, stats)

get_cache_stats(redis) ==
    IF wiring = "default"
    THEN CacheService_get_cache_stats(memory_cache, redis = "ok")
    ELSE OptimizedCacheService_get_cache_stats(memory_cache, redis_client, stats)

\* One call of a cache method: the stores, the client and the counters
\* become what the method left, op records the call and the one before it.
CacheOp(kind, key, value, ttl, redis, o, report) ==
    /\ op.n < MaxOps
    /\ op' = [n |-> op.n + 1, kind |-> kind, key |-> key, value |-> value, ttl |-> ttl,
              at |-> now, redis |-> redis, returned |-> o.returned, raised |-> o.raised,
              report |-> report,
              gets |-> op.gets + (IF kind = "get" THEN 1 ELSE 0),
              sets |-> op.sets + (IF kind = "set" THEN 1 ELSE 0),
              written |-> IF kind = "set"
                          THEN [op.written EXCEPT ![key] =
                                   [set |-> TRUE, at |-> now, ttl |-> ttl, value |-> value]]
                          ELSE op.written,
              prev |-> [kind |-> op.kind, key |-> op.key, value |-> op.value,
                        ttl |-> op.ttl, at |-> op.at, redis |-> op.redis,
                        returned |-> op.returned]]
    /\ memory_cache' = o.memory_cache
    /\ redis_store' = o.redis_store
    /\ redis_client' = o.redis_client
    /\ stats' = o.stats
    /\ UNCHANGED <<settings, bq_client, ga4_client, wiring, now, calls, last, route, step, units>>

CacheSet ==
    \E key \in CacheKeys, value \in CacheValues, ttl \in CacheTTLs,
       redis \in RedisOutcomes(redis_client) :
        \E o \in {cache_set(key, value, ttl, redis)} :
            CacheOp("set", key, value, ttl, redis, o, op.report)

CacheGet ==
    \E key \in CacheKeys, redis \in RedisOutcomes(redis_client) :
        \E o \in {cache_get(key, redis)} :
            CacheOp("get", key, op.value, 0, redis, o, op.report)

CacheDelete ==
    \E key \in CacheKeys, redis \in RedisOutcomes(redis_client) :
        \E o \in {cache_delete(key, redis)} :
            CacheOp("delete", key, op.value, 0, redis, o, op.report)

CacheExists ==
    \E key \in CacheKeys, redis \in RedisOutcomes(redis_client) :
        \E o \in {cache_exists(key, redis)} :
            CacheOp("exists", key, op.value, 0, redis, o, op.report)

\* cache.clear_pattern(pattern), a method of CacheService.
cache_clear_pattern(pattern, redis) ==
    LET c == CacheService_clear_pattern(memory_cache, redis_store, pattern, redis = "ok")
    IN CacheCall(Got(PyValue("int", c.count)), FALSE, c.memory_cache, c.redis_store,
                 redis_client, stats)

CacheClearPattern ==
    /\ wiring = "default"
    /\ \E pattern \in ClearPatterns, redis \in RedisOutcomes(redis_client) :
           \E o \in {cache_clear_pattern(pattern, redis)} :
               CacheOp("clear_pattern", op.key, op.value, 0, redis, o, op.report)

CacheStats ==
    \E redis \in RedisOutcomes(redis_client) :
        CacheOp("stats", op.key, op.value, 0, redis,
                CacheCall(op.returned, FALSE, memory_cache, redis_store, redis_client, stats),
                get_cache_stats(redis))

Next == ExecuteQuery \/ Tick

Spec == Init /\ [][Next]_vars

NextRoute == Route

NextTrend == ExecuteTrendQuery \/ Tick

NextFilters == ExecuteFilterQuery \/ Tick

SpecFilters == Init /\ [][NextFilters]_vars

NextStep == TrendAndCache

NextCache == CacheSet \/ CacheGet \/ CacheDelete \/ CacheExists \/ CacheStats \/ Tick

SpecCache == InitCache /\ [][NextCache]_vars

\* Calls on the filled store, MaxEvictOps of them.
EvictSet == op.n < MaxEvictOps /\ CacheSet
EvictGet == op.n < MaxEvictOps /\ CacheGet
EvictDelete == op.n < MaxEvictOps /\ CacheDelete
EvictExists == op.n < MaxEvictOps /\ CacheExists
EvictClearPattern == op.n < MaxEvictOps /\ CacheClearPattern

(***************************************************************************)
(* OptimizedCacheService.set as the event loop runs it.  The coroutine     *)
(* runs without interruption up to `await self.redis_client.setex(...)`    *)
(* (line 143), where it is suspended until the reply is there; from the    *)
(* reply on it runs to its return: the lock of line 149 is free whenever a *)
(* coroutine reaches it, because no coroutine awaits while holding it.     *)
(* The server executes a command before it replies; coroutines whose       *)
(* replies are there are resumed in the order the event loop picks them.   *)
(***************************************************************************)
SetKey == "k1"

\* Lines 134-143, or the whole call without a Redis client.
TaskStart(i) ==
    /\ inflight[i].pc = "created"
    /\ IF redis_client
       THEN /\ inflight' = [inflight EXCEPT ![i].pc = "awaiting"]
            /\ UNCHANGED <<memory_cache, stats>>
       ELSE /\ memory_cache' = TTLCache_setitem(memory_cache, SetKey, inflight[i].value)
            /\ stats' = Count(stats, "sets")
            /\ inflight' = [inflight EXCEPT ![i].pc = "returned", ![i].ok = TRUE]
    /\ UNCHANGED <<config, now, redis_store, calls, last, route, step, op, analysis,
                   container, retry>>

\* The command of a suspended coroutine is executed, or fails.
RedisReply(i) ==
    /\ inflight[i].pc = "awaiting"
    /\ \E redis \in RedisOutcomes(redis_client) :
          /\ inflight' = [inflight EXCEPT ![i].pc = redis]
          /\ redis_store' =
                IF redis = "ok"
                THEN [k \in DOMAIN redis_store \cup {SetKey} |->
                         IF k = SetKey
                         THEN [value |-> json_dumps(inflight[i].value),
                               expires_at |-> now + CACHE_TTL_SECONDS]
                         ELSE redis_store[k]]
                ELSE redis_store
    /\ UNCHANGED <<config, now, memory_cache, calls, last, route, step, stats, op,
                   analysis, container, retry>>

\* Lines 144-153 (155-158 after an exception that is not a ConnectionError).
TaskResume(i) ==
    /\ inflight[i].pc \in {"ok", "connection_error", "timeout"}
    /\ IF inflight[i].pc = "timeout"
       THEN /\ stats' = Count(stats, "errors")
            /\ inflight' = [inflight EXCEPT ![i].pc = "returned", ![i].ok = FALSE]
            /\ UNCHANGED memory_cache
       ELSE /\ memory_cache' = TTLCache_setitem(memory_cache, SetKey, inflight[i].value)
            /\ stats' = Count(stats, "sets")
            /\ inflight' = [inflight EXCEPT ![i].pc = "returned",
                                            ![i].ok = (inflight[i].pc = "ok")]
    /\ UNCHANGED <<config, now, redis_store, calls, last, route, step, op, analysis,
                   container, retry>>

AllReturned == inflight # <<>> /\ \A i \in 1..Len(inflight) : inflight[i].pc = "returned"

SetStart == \E i \in 1..Len(inflight) : TaskStart(i)
SetReply == \E i \in 1..Len(inflight) : RedisReply(i)
SetResume == \E i \in 1..Len(inflight) : TaskResume(i)
\* get(SetKey) once every set has returned.
LaterGet == AllReturned /\ CacheGet

NextTasks == SetStart \/ SetReply \/ SetResume \/ LaterGet

SpecTasks == InitTasks /\ [][NextTasks]_vars

\* The factory of a name runs: the next instance.
Created(c, name) ==
    [c EXCEPT !.instances = @ + 1, !.runs[name] = @ + 1]

Returning(c, name, instance) ==
    [c EXCEPT !.returned[name] = @ \cup {instance},
              !.got = [name |-> name, instance |-> instance, raised |-> FALSE]]

\* ServiceContainer.get
ServiceContainer_get(c, name) ==
    IF name \in DOMAIN c.services
    THEN Returning(c, name, c.services[name])
    ELSE IF name \in DOMAIN c.singletons
    THEN IF c.singletons[name] = NoInstance /\ name \in c.factories
         THEN LET made == Created(c, name)
              IN Returning([made EXCEPT !.singletons[name] = made.instances], name,
                     made.instances)
         ELSE Returning(c, name, c.singletons[name])
    ELSE IF name \in c.factories
    THEN LET made == Created(c, name) IN Returning(made, name, made.instances)
    ELSE [c EXCEPT !.got = [name |-> name, instance |-> NoInstance, raised |-> TRUE]]

\* ServiceContainer.reset: _singletons.clear() leaves nothing for the loop of
\* lines 132-133 to go through.
ServiceContainer_reset(c) ==
    [c EXCEPT !.services = << >>,
              !.singletons = << >>,
              !.resets = @ + 1,
              !.runs = [n \in ServiceNames |-> 0],
              !.returned = [n \in ServiceNames |-> {}]]

ContainerGet ==
    /\ container.instances < MaxInstances
    /\ \E name \in ServiceNames : container' = ServiceContainer_get(container, name)
    /\ UNCHANGED <<router, analysis, retry, inflight>>

ContainerReset ==
    /\ container.resets < MaxResets
    /\ container' = ServiceContainer_reset(container)
    /\ UNCHANGED <<router, analysis, retry, inflight>>

NextContainer == ContainerGet \/ ContainerReset

SpecContainer == InitContainer /\ [][NextContainer]_vars

(***************************************************************************)
(* OptimizedGA4Service._execute_with_retry.  pc is the place of the        *)
(* coroutine: "loop" at the head of the for loop, "sleeping" in            *)
(* asyncio.sleep, "calling" at run_report, "done" once it has returned or  *)
(* raised.  log lists what run_report did, call by call.                   *)
(***************************************************************************)
RunReportOutcomes == {"response", "DeadlineExceeded", "ServiceUnavailable",
                      "InvalidArgument", "PermissionDenied"}

\* A policy that retries after every exception.
retryable_whatever_the_error(outcome) == outcome # "response"

\* The two except clauses that end in `continue`.
retryable(outcome) == outcome \in {"DeadlineExceeded", "ServiceUnavailable"}

RECURSIVE Pow2(_)
Pow2(n) == IF n = 0 THEN 1 ELSE 2 * Pow2(n - 1)

RetryBegin ==
    /\ retry.pc = "idle"
    /\ retry' = [retry EXCEPT !.pc = "loop"]
    /\ UNCHANGED <<router, analysis, container, inflight>>

\* The head of the loop: the next attempt, after a sleep if it is not the
\* first, or GA4APIError when range(max_retries) is used up.
RetryLoop ==
    /\ retry.pc = "loop"
    /\ retry' = IF retry.attempt >= retry.max_retries
                THEN [retry EXCEPT !.pc = "done", !.outcome = "GA4APIError"]
                ELSE IF retry.attempt > 0
                THEN [retry EXCEPT !.pc = "sleeping"]
                ELSE [retry EXCEPT !.pc = "calling"]
    /\ UNCHANGED <<router, analysis, container, inflight>>

RetrySleep ==
    /\ retry.pc = "sleeping"
    /\ retry' = [retry EXCEPT !.pc = "calling", !.slept = @ + Pow2(retry.attempt)]
    /\ UNCHANGED <<router, analysis, container, inflight>>

\* run_report returns or raises.
RetryCall ==
    /\ retry.pc = "calling"
    /\ \E outcome \in RunReportOutcomes :
          retry' =
              LET called == [retry EXCEPT !.calls = @ + 1, !.log = Append(@, outcome)]
              IN IF outcome = "response"
                 THEN [called EXCEPT !.pc = "done", !.outcome = "returned"]
                 ELSE IF retryable(outcome)
                 THEN [called EXCEPT !.pc = "loop", !.attempt = @ + 1,
                                     !.last_error = outcome]
                 ELSE [called EXCEPT !.pc = "done", !.outcome = outcome]
    /\ UNCHANGED <<router, analysis, container, inflight>>

NextRetry == RetryBegin \/ RetryLoop \/ RetrySleep \/ RetryCall

\* asyncio.sleep returns and run_report returns or raises: the coroutine is
\* never left at a step it can take.
SpecRetry == InitRetry /\ [][NextRetry]_vars /\ WF_vars(NextRetry)

NextScore == Score

SpecScore == InitScore /\ [][NextScore]_vars

NextEvict ==
    EvictSet \/ EvictGet \/ EvictDelete \/ EvictExists \/ EvictClearPattern \/ Tick

SpecEvict == InitEvict /\ [][NextEvict]_vars

\* analyze_trend on the rows drawn at the start.
AnalyzeTrend ==
    /\ ~analysis.valid
    /\ \E report \in {analyze_trend_rows(analysis.data)} :
           analysis' = [analysis EXCEPT !.valid = TRUE, !.report = report]
    /\ UNCHANGED <<router, container, retry, inflight>>

NextStats == AnalyzeTrend

SpecStats == InitStats /\ [][NextStats]_vars

NextSelect == ExecuteSelectQuery \/ Tick \/ Select

SpecSelect == InitSelect /\ [][NextSelect]_vars

SpecStep == InitStep /\ [][NextStep]_vars

SpecTrend == Init /\ [][NextTrend]_vars

SpecRoute == InitRoute /\ [][NextRoute]_vars

(***************************************************************************)
(* Properties of execute_query, stated on the record of the latest call.   *)
(***************************************************************************)
Called == last.path # "none"

\* The call took the normal path and its first adapter returned an error result.
PrimaryFailed ==
    /\ last.path = "source"
    /\ last.invoked[1].outcome = "error"

Alternate(adapter) == IF adapter = "bigquery" THEN "ga4_api" ELSE "bigquery"

\* The fallback ran and returned a non-error result, which is what the call returned.
AlternateResultReturned ==
    /\ ~last.result.error
    /\ last.result.rows = last.invoked[2].rows
    /\ last.result.routing_reasoning = "fallback"

Invocations(adapter) ==
    Cardinality({ i \in 1..Len(last.invoked) : last.invoked[i].adapter = adapter })

\* The failure reason an adapter's error result carries in its message.
FailureReason(adapter) == adapter

BothFailed ==
    /\ PrimaryFailed
    /\ Len(last.invoked) = 2
    /\ last.invoked[2].outcome = "error"

\* C1 (as amended): when the selected adapter returns an error result, the
\* fallback depends on the source and on the warehouse: after BIGQUERY the GA4
\* adapter is invoked exactly once; after GA4_API the BigQuery adapter is
\* invoked exactly once if is_available() holds and no adapter otherwise;
\* after MOCK no adapter is invoked.  When the fallback returns a non-error
\* result, that result is what execute_query returns.
C1_FallbackDependsOnAvailability ==
    PrimaryFailed =>
        /\ last.selected = "bigquery" =>
              Len(last.invoked) = 2 /\ last.invoked[2].adapter = "ga4_api"
        /\ last.selected = "ga4_api" /\ is_available =>
              Len(last.invoked) = 2 /\ last.invoked[2].adapter = "bigquery"
        /\ last.selected = "ga4_api" /\ ~is_available => Len(last.invoked) = 1
        /\ last.selected = "mock" => Len(last.invoked) = 1
        /\ Len(last.invoked) = 2 /\ last.invoked[2].outcome = "ok" =>
              AlternateResultReturned

\* C1, witness: the GA4 adapter failed as primary, the warehouse was tried
\* once as fallback, succeeded, and its rows came back.
C1_Witness ==
    /\ PrimaryFailed
    /\ last.selected = "ga4_api"
    /\ Len(last.invoked) = 2
    /\ last.invoked[2].adapter = "bigquery"
    /\ last.invoked[2].outcome = "ok"
    /\ AlternateResultReturned

\* C1 (as stated): whenever the selected adapter returns an error result,
\* exactly one alternate adapter is invoked (BigQuery after GA4, GA4 after
\* BigQuery), in every availability state, and its non-error result is returned.
C1_AlwaysOneAlternate ==
    PrimaryFailed =>
        /\ Len(last.invoked) = 2
        /\ last.invoked[2].adapter = Alternate(last.invoked[1].adapter)
        /\ last.invoked[2].outcome = "ok" => AlternateResultReturned

C3_PrimaryReasonOnly ==
    BothFailed =>
        /\ last.result.error
        /\ last.result.message = {FailureReason(last.invoked[1].adapter)}
        /\ last.result.rows = <<>>
        /\ last.result.totals = <<>>
        /\ last.result.data_source = last.selected

\* C3, witness: BigQuery failed as primary and the GA4 adapter failed as fallback.
C3_Witness ==
    /\ BothFailed
    /\ last.invoked[1].adapter = "bigquery"
    /\ last.invoked[2].adapter = "ga4_api"
    /\ last.result.error

\* C3 (as stated): when both adapters fail, the error result carries both
\* failure reasons.
C3_BothReasons ==
    BothFailed =>
        /\ last.result.error
        /\ FailureReason(last.invoked[1].adapter) \in last.result.message
        /\ FailureReason(last.invoked[2].adapter) \in last.result.message

(***************************************************************************)
(* Properties of the cache steps of execute_query.                         *)
(***************************************************************************)
\* The store the cache service reads holds an unexpired entry under the key
\* derived from (qp, property_id).
CacheHolds(qp, property_id) ==
    LET k == generate_query_cache_key(qp, property_id)
    IN /\ ~k.raised
       /\ IF redis_client
          THEN k.value \in Live(redis_store)
          ELSE \E i \in 1..Len(memory_cache) :
                  /\ memory_cache[i].key = k.value
                  /\ now < memory_cache[i].expires_at

\* The result stored under the key derived from (qp, property_id).
CachedData(qp, property_id) ==
    LET k == generate_query_cache_key(qp, property_id).value
    IN IF redis_client
       THEN json_loads(redis_store[k].value).data
       ELSE memory_cache[MemIndex(memory_cache, k)].value.data

\* The step is an execute_query call.
CallStep == calls' = calls + 1

\* C4: an execute_query call made while the cache holds an unexpired entry
\* for (descriptor, property_id), the store answering the lookup, returns
\* the stored result, invokes no selector, no adapter and no trend analysis,
\* and writes nothing to the cache.
C4_HitTouchesNothing ==
    [][ (CallStep /\ CacheHolds(last'.qp, last'.property_id) /\ ~last'.get_fault) =>
            /\ last'.cache_hit
            /\ last'.path = "cache"
            /\ last'.result = CachedData(last'.qp, last'.property_id)
            /\ last'.invoked = <<>>
            /\ last'.select_calls = 0
            /\ last'.trend_calls = 0
            /\ ~last'.cache_write.called
            /\ memory_cache' = memory_cache
            /\ redis_store' = redis_store ]_vars

\* C4, witness: the second call of a behaviour was answered from the cache.
C4_Witness ==
    /\ calls = 2
    /\ last.cache_hit
    /\ last.path = "cache"
    /\ ~last.result.error
    /\ last.result.rows # <<>>

\* C5 (as stated): after a call that fetched a non-error result from a
\* source, the next call with the same descriptor and property id, made
\* before the chosen TTL is over, is a cache hit: same rows, no adapter
\* invoked; the descriptors give every metric and dimension as an object.
C5_SecondCallServedFromCache ==
    [][ ( /\ CallStep
          /\ wiring = "default"
          /\ last.path = "source"
          /\ ~last.result.error
          /\ ~last.set_fault
          /\ ~HasStrRef(last.qp.metrics)
          /\ ~HasStrRef(last.qp.dimensions)
          /\ last'.qp = last.qp
          /\ last'.property_id = last.property_id
          /\ now < last.at + last.cache_write.ttl
          /\ ~last'.get_fault ) =>
            /\ last'.cache_hit
            /\ last'.invoked = <<>>
            /\ last'.result.rows = last.result.rows ]_vars

\* C6: the cache write is called only with a non-error result, every entry
\* of either store holds a non-error result, and a cache hit returns one.
C6_OnlyNonErrorResultsCached ==
    /\ last.cache_write.called => ~last.cache_write.error /\ ~last.result.error
    /\ \A i \in 1..Len(memory_cache) : ~memory_cache[i].value.data.error
    /\ \A k \in DOMAIN redis_store : ~json_loads(redis_store[k].value).data.error
    /\ last.cache_hit => ~last.result.error

\* C6, witness: with an entry in the cache, a later call ended in an error
\* result and made no cache write.
C6_Witness ==
    /\ Len(memory_cache) = 1
    /\ last.path = "source"
    /\ last.result.error
    /\ ~last.cache_write.called

EndsToday(qp) == \E i \in 1..Len(qp.date_ranges) : qp.date_ranges[i].end_date = Today

\* C7 (as stated): with warehouse routing disabled or the warehouse not
\* available, the selector returns GA4_API without scoring, and a non-error
\* result fetched for a date range ending today is cached with TTL 60.
C7_PreCheckAndLiveTTL ==
    ( /\ last.path = "source"
      /\ ~settings.ENABLE_BIGQUERY_ROUTING \/ ~is_available ) =>
        /\ last.selected = "ga4_api"
        /\ ~last.scored
        /\ (~last.result.error /\ EndsToday(last.qp) /\ ~last.set_fault) =>
              /\ last.cache_write.written
              /\ last.cache_write.ttl = 60

ResultFields ==
    {"error", "message", "rows", "totals", "row_count", "data_source",
     "routing_reasoning", "trend_analysis", "mock_data"}

AllSourcesFailed ==
    /\ last.invoked # <<>>
    /\ \A i \in 1..Len(last.invoked) : last.invoked[i].outcome # "ok"

\* C10: every execute_query call returns a result mapping and raises
\* nothing; an error result has no rows, no totals and row_count 0; and
\* when every adapter invoked has failed the result is an error result.
C10_AlwaysReturnsAResult ==
    Called =>
        /\ ~last.raised
        /\ DOMAIN last.result = ResultFields
        /\ last.result.error =>
              /\ last.result.rows = <<>>
              /\ last.result.totals = <<>>
              /\ last.result.row_count = 0
        /\ AllSourcesFailed => last.result.error

\* C10, witness: the normal path raised, the emergency fallback's adapter
\* raised too, and the call returned the all-sources-failed result.
C10_Witness ==
    /\ last.path = "emergency"
    /\ last.invoked[Len(last.invoked)].outcome = "raised"
    /\ last.result.error
    /\ last.result.data_source = "error"
    /\ last.result.row_count = 0

(***************************************************************************)
(* Properties of the selector and of the TTL policy (SpecRoute).           *)
(***************************************************************************)
\* C8 (as amended): in mock mode the selector returns MOCK, without scoring,
\* exactly when warehouse routing is enabled and the warehouse is available;
\* with routing disabled or the warehouse unavailable it returns GA4_API,
\* mock mode or not.
C8_MockAfterWarehouseChecks ==
    (route.valid /\ settings.USE_MOCK_GA4_API) =>
        /\ ~route.decision.raised
        /\ ~route.decision.scored
        /\ route.decision.source =
              IF settings.ENABLE_BIGQUERY_ROUTING /\ is_available
              THEN "mock" ELSE "ga4_api"

\* C8, witness: mock mode with the warehouse available, MOCK selected.
C8_Witness ==
    /\ route.valid
    /\ settings.USE_MOCK_GA4_API
    /\ is_available
    /\ route.decision.source = "mock"

\* C8 (as stated): in mock mode the selector returns MOCK outright, whatever
\* the other flags and the warehouse's availability.
C8_MockInEveryConfiguration ==
    (route.valid /\ settings.USE_MOCK_GA4_API) =>
        /\ route.decision.source = "mock"
        /\ ~route.decision.scored

\* C9: the TTL is 60 when some date range ends today, whatever the number
\* of metrics and dimensions; otherwise 600 with more than 3 metrics or more
\* than 2 dimensions; otherwise 300.
C9_TTLPolicy ==
    route.valid =>
        route.ttl =
            IF EndsToday(route.qp) THEN 60
            ELSE IF Len(route.qp.metrics) > 3 \/ Len(route.qp.dimensions) > 2 THEN 600
            ELSE 300

\* C9, witness: an expensive descriptor (more than 3 metrics, more than 2
\* dimensions) with a range ending today got 60.
C9_Witness ==
    /\ route.valid
    /\ EndsToday(route.qp)
    /\ Len(route.qp.metrics) > 3
    /\ Len(route.qp.dimensions) > 2
    /\ route.ttl = 60

(***************************************************************************)
(* Properties of the returned result and of the trend step.                *)
(***************************************************************************)
\* C11 (as stated): the result of every execute_query call has the fields
\* rows, data_source and routing_reasoning, whatever path the call took.
C11_ResultHasRoutingFields ==
    Called =>
        /\ "rows" \in DOMAIN last.result
        /\ last.result.data_source # Absent
        /\ last.result.routing_reasoning # Absent
\* The latest call fetched a result with no error from a source adapter.
Fetched == Called /\ last.path = "source" /\ ~last.result.error

\* The descriptor has a recognized time dimension, in either shape.
HasTimeDimension(qp) ==
    \E i \in 1..Len(qp.dimensions) : qp.dimensions[i].name \in time_dimensions

\* C12 (as stated): after a successful fetch of at least 3 rows for a
\* descriptor with a recognized time dimension, given as a {name: ...}
\* object included, the trend engine was invoked and its report is attached
\* to the result under trend_analysis.
C12_TrendAttachedForTimeDimension ==
    (Fetched /\ HasTimeDimension(last.qp) /\ Len(last.result.rows) >= 3) =>
        /\ last.trend_calls = 1
        /\ last.result.trend_analysis # Absent
\* The trend engine was invoked in the latest run of steps 5-6 and could not
\* analyse the rows.
TrendEngineFailed == step.valid /\ step.trend_calls = 1 /\ step.trend = "error"

RightAfter(before, kind) ==
    /\ op.kind = kind
    /\ op.prev.kind = before
    /\ op.prev.key = op.key
    /\ op.prev.at = op.at

RedisReachable == op.redis = "ok" /\ op.prev.redis = "ok"

\* C15 (as stated, with Redis reachable where there is one): set(k, v, ttl)
\* with a positive ttl followed immediately by get(k) returns v, for either
\* cache class and either backing store.
C15_SetThenGetReturnsValue ==
    (RightAfter("set", "get") /\ op.prev.ttl > 0 /\ RedisReachable) =>
        /\ ~op.returned.none
        /\ op.returned.value = op.prev.value

\* C16 (as stated, with Redis reachable where there is one): delete(k)
\* returns True, and a get(k) after it returns None and an exists(k) after it
\* returns False, for either cache class.
C16_DeleteThenNothing ==
    (op.prev.kind = "delete" /\ op.prev.key = op.key /\ op.kind \in {"get", "exists"}
        /\ op.prev.at = op.at /\ RedisReachable) =>
        /\ op.prev.returned = Bool(TRUE)
        /\ ~op.raised
        /\ op.kind = "get" => op.returned.none
        /\ op.kind = "exists" => op.returned = Bool(FALSE)

\* C17 (as stated): a set(k, v) made while the connection to Redis fails is
\* stored in process, and a get(k) that follows while the connection still
\* fails returns v, for either cache class.
C17_DegradesToMemory ==
    (RightAfter("set", "get") /\ op.prev.redis = "connection_error"
        /\ op.redis = "connection_error") =>
        /\ ~op.raised
        /\ ~op.returned.none
        /\ op.returned.value = op.prev.value

\* C18 (as stated): a get(k) made more than ttl seconds after the latest
\* set(k, v, ttl) returns None, for either cache class, with or without Redis.
C18_ExpiresAfterTTL ==
    (op.kind = "get" /\ op.redis = "ok" /\ op.written[op.key].set
        /\ op.written[op.key].ttl > 0
        /\ op.at > op.written[op.key].at + op.written[op.key].ttl) =>
        op.returned.none
\* C20 (as stated): after n get calls and m set calls get_cache_stats
\* reports hits + misses = n and sets = m, for either cache class.
C20_StatsCountEveryGetAndSet ==
    op.kind = "stats" =>
        /\ {"hits", "misses", "sets"} \subseteq DOMAIN op.report
        /\ op.report.hits + op.report.misses = op.gets
        /\ op.report.sets = op.sets
\* The query parameters stored with the cache entry under the key derived
\* from (qp, property_id).
CachedFor(qp, property_id) ==
    LET k == generate_query_cache_key(qp, property_id).value
    IN IF redis_client
       THEN json_loads(redis_store[k].value).query_params
       ELSE memory_cache[MemIndex(memory_cache, k)].value.query_params

\* C19 (as stated): a result execute_query serves from the cache was cached
\* for the very descriptor of the call, filters included, so a descriptor is
\* never answered with the result of one that differs from it in filters.
C19_CacheKeyDistinguishesFilters ==
    (Called /\ last.cache_hit) =>
        CachedFor(last.qp, last.property_id).qp = last.qp

(***************************************************************************)
(* Properties of the trend engine, stated on the report of the analysis.   *)
(***************************************************************************)
Extractable == Len(extract_time_series(analysis.data))

Outside(values, i) ==
    LET q == quantiles(values)
    IN IF 8 * values[i] > 2 * q[3] + 3 * (q[3] - q[1]) THEN "outlier_high"
       ELSE IF 8 * values[i] < 2 * q[1] - 3 * (q[3] - q[1]) THEN "outlier_low"
       ELSE "inside"

\* C22: for a series of at least 5 points the anomalies are exactly the
\* points below Q1 - 1.5 IQR (outlier_low) or above Q3 + 1.5 IQR
\* (outlier_high); for fewer than 5 points there are none; on the nine values
\* 10,11,9,10,12,11,100,10,9 the value 100 alone is flagged, as outlier_high.
C22_AnomaliesFollowIQRRule ==
    (analysis.valid /\ ~analysis.report.error) =>
        LET values == Values(extract_time_series(analysis.data))
            found == analysis.report.anomalies
        IN /\ Len(values) < 5 => found = <<>>
           /\ Len(values) >= 5 =>
                 /\ { found[k].index : k \in 1..Len(found) }
                        = { i - 1 : i \in { j \in 1..Len(values) : Outside(values, j) # "inside" } }
                 /\ \A k \in 1..Len(found) :
                        /\ found[k].value = values[found[k].index + 1]
                        /\ found[k].type = Outside(values, found[k].index + 1)
                 /\ \A k \in 1..(Len(found) - 1) : found[k].index < found[k + 1].index
           /\ analysis.data = NineDayRows =>
                 /\ Len(found) = 1
                 /\ found[1].value = 100
                 /\ found[1].type = "outlier_high"

\* A series of six points with a low outlier and no high one has been analysed.
C22_Witness ==
    /\ analysis.valid
    /\ ~analysis.report.error
    /\ Len(analysis.report.anomalies) = 1
    /\ analysis.report.anomalies[1].type = "outlier_low"

(***************************************************************************)
(* Properties of the scoring (SpecRoute).                                  *)
(***************************************************************************)
Scored == route.valid /\ ~route.decision.raised /\ route.decision.scored

\* C23 (as stated): when scoring runs the selector picks the source with the
\* strictly higher weighted total and picks GA4 API when the totals are
\* equal, as for data_volume 0.4, query_complexity 1.0, date_range 0.1, where
\* both totals are 0.5.
C23_TieSelectsGA4 ==
    Scored =>
        route.decision.source =
            IF bigquery_total(route.qp) > ga4_total(route.qp) THEN "bigquery"
            ELSE "ga4_api"

\* Days between the start date and today.
StartAge(start) == CASE start.kind = "today" -> 0
                     [] start.kind = "yesterday" -> 1
                     [] OTHER -> start.n

DateRangeScore(start) ==
    analyze_date_range([route.qp EXCEPT !.date_ranges = <<DateRange(start, Today)>>])

\* C24 (as stated): the date-range factor is 1.0 when the first range starts
\* more than 365 days back, 0.1 when it starts today or yesterday, and never
\* smaller for an older start date than for a newer one, whether the start is
\* written 'NdaysAgo' or as an absolute date.
C24_DateRangeFactorFollowsAge ==
    (route.valid /\ route.qp.date_ranges # <<>> /\ ~analyze_date_range_raises(route.qp)) =>
        LET start == route.qp.date_ranges[1].start_date
            score == analyze_date_range(route.qp)
        IN /\ StartAge(start) > 365 => score = 10
           /\ StartAge(start) <= 1 => score = 1
           /\ \A newer \in { s \in RouteStarts : s.kind # "badDaysAgo" } :
                  StartAge(newer) <= StartAge(start) => DateRangeScore(newer) <= score

(***************************************************************************)
(* Properties of the in-process store of CacheService (SpecEvict).         *)
(***************************************************************************)
\* A set in in-process mode that finds the store at its maximum.
SetOnFullStore ==
    /\ wiring = "default"
    /\ ~redis_client
    /\ op'.n = op.n + 1
    /\ op'.kind = "set"
    /\ Len(memory_cache) >= max_memory_cache_size

\* C25: such a set removes every expired entry; when the unexpired entries
\* are fewer than the maximum it removes none of them; otherwise it removes
\* len // 4 of them, none of which is newer than an unexpired entry it
\* keeps.  (The entry of the key being set is the one the set writes.)
C25_ExpiredFirstThenOldestQuarter ==
    [][SetOnFullStore =>
        \A unexpired \in {SelectSeq(memory_cache, LAMBDA e : ~(now > e.expires_at))} :
        \A after \in {{ memory_cache'[i].key : i \in 1..Len(memory_cache') } \ {op'.key}} :
        \A others \in {{ i \in 1..Len(unexpired) : unexpired[i].key # op'.key }} :
        \A removed \in {{ i \in others : unexpired[i].key \notin after }} :
            /\ \A i \in 1..Len(memory_cache) :
                   (now > memory_cache[i].expires_at /\ memory_cache[i].key # op'.key)
                       => memory_cache[i].key \notin after
            /\ Len(unexpired) < max_memory_cache_size => removed = {}
            /\ Len(unexpired) >= max_memory_cache_size =>
                   \/ Cardinality(removed) = Len(unexpired) \div 4
                   \/ /\ Cardinality(others) < Len(unexpired)
                      /\ Cardinality(removed) = Len(unexpired) \div 4 - 1
            /\ \A r \in { unexpired[i].created_at : i \in removed },
                  k \in { unexpired[i].created_at : i \in others \ removed } : r <= k
    ]_vars

\* A set found the store full of unexpired entries and left three quarters
\* of them beside its own.
C25_Witness ==
    /\ wiring = "default"
    /\ ~redis_client
    /\ op.kind = "set"
    /\ Len(memory_cache) = max_memory_cache_size - max_memory_cache_size \div 4 + 1

\* C28: in in-process mode memory_cache never holds more than
\* max_memory_cache_size entries, whatever set, get, delete, exists and
\* clear_pattern calls have been made.
C28_MemoryCacheIsBounded ==
    (wiring = "default" /\ ~redis_client) => Len(memory_cache) <= max_memory_cache_size

\* A set has just filled the store to its maximum.
C28_Witness ==
    /\ wiring = "default"
    /\ ~redis_client
    /\ op.kind = "set"
    /\ Len(memory_cache) = max_memory_cache_size

(***************************************************************************)
(* Properties of concurrent sets on OptimizedCacheService (SpecTasks).     *)
(***************************************************************************)
\* C26 (as stated): once concurrent set calls on one key have all returned,
\* Redis and the in-process store hold the same value for the key, so that
\* a later get returns that value with Redis reachable or not.
C26_StoresAgreeAfterConcurrentSets ==
    (/\ AllReturned
     /\ redis_client
     /\ \A i \in 1..Len(inflight) : inflight[i].ok) =>
        /\ SetKey \in Live(redis_store)
        /\ TTLCache_get(memory_cache, SetKey).found
        /\ json_loads(redis_store[SetKey].value) = TTLCache_get(memory_cache, SetKey).value

(***************************************************************************)
(* Properties of ServiceContainer (SpecContainer).                         *)
(***************************************************************************)
\* C29 (as stated): for a name registered with register_singleton, the gets
\* made since the container was built or last reset have all returned the
\* same instance, and the factory has run at most once for them, whatever
\* gets and resets came before.
C29_SingletonCreatedOncePerReset ==
    \A name \in SingletonNames :
        /\ Cardinality(container.returned[name]) <= 1
        /\ container.runs[name] <= 1

(***************************************************************************)
(* Properties of _execute_with_retry (SpecRetry).                          *)
(***************************************************************************)
RetryOutcomeOK ==
    /\ retry.calls = Len(retry.log)
    /\ retry.calls <= retry.max_retries
    /\ \A i \in 1..(Len(retry.log) - 1) :
           retry.log[i] \in {"DeadlineExceeded", "ServiceUnavailable"}
    /\ (retry.log # <<>>
           /\ retry.log[Len(retry.log)] \notin {"DeadlineExceeded", "ServiceUnavailable"}) =>
           /\ retry.pc = "done"
           /\ retry.outcome = IF retry.log[Len(retry.log)] = "response" THEN "returned"
                               ELSE retry.log[Len(retry.log)]
    /\ (retry.pc = "done" /\ retry.outcome = "GA4APIError") =>
           /\ retry.calls = retry.max_retries
           /\ \A i \in 1..Len(retry.log) :
                  retry.log[i] \in {"DeadlineExceeded", "ServiceUnavailable"}
    /\ (/\ retry.calls = retry.max_retries
        /\ retry.pc = "done"
        /\ \A i \in 1..Len(retry.log) :
               retry.log[i] \in {"DeadlineExceeded", "ServiceUnavailable"}) =>
           retry.outcome = "GA4APIError"

\* C30: run_report is called at most max_retries times; a further call is
\* made only after DeadlineExceeded or ServiceUnavailable; a response is
\* returned and any other exception is raised at once, with no further call;
\* max_retries retryable failures in a row end in GA4APIError; and the call
\* always comes to an end.
C30_BoundedRetries ==
    /\ []RetryOutcomeOK
    /\ <>(retry.pc = "done")

\* Three retryable failures with the default max_retries ended in GA4APIError.
C30_Witness ==
    /\ retry.pc = "done"
    /\ retry.max_retries = default_max_retries
    /\ retry.calls = default_max_retries
    /\ retry.outcome = "GA4APIError"

(***************************************************************************)
(* Properties of the two weighted totals as doubles (SpecScore).           *)
(***************************************************************************)
\* 2^-52, the spacing of the doubles at 1.
Epsilon == ShiftLeft(<<1>>, Scale - 52)

\* The selector of the other specifications decides as the doubles do.
ScoredSourceAgrees == Scored => route.decision.source = scored_source(route.qp)

\* C27 (as amended): whenever scoring runs each total lies in [0, 1], the
\* five weights sum to 1 and the totals sum to 1 in exact arithmetic; as the
\* doubles the code adds up, their sum is within 2^-52 of 1.
C27_TotalsSumToOneUpToRounding ==
    Scored =>
        /\ BigCmp(route.scores.ga4_api, One) <= 0
        /\ BigCmp(route.scores.bigquery, One) <= 0
        /\ routing_weights.data_volume + routing_weights.query_complexity
             + routing_weights.date_range + routing_weights.performance
             + routing_weights.availability = 100
        /\ ga4_total(route.qp) + bigquery_total(route.qp) = 1000
        /\ BigCmp(BigAdd(route.scores.ga4_api, route.scores.bigquery),
                  BigAdd(One, Epsilon)) <= 0
        /\ BigCmp(BigAdd(BigAdd(route.scores.ga4_api, route.scores.bigquery), Epsilon),
                  One) >= 0

\* Scoring ran and the two doubles do not add up to 1.
C27_Witness ==
    /\ Scored
    /\ BigAdd(route.scores.ga4_api, route.scores.bigquery) # One

\* C27 (as stated): whenever scoring runs the two totals sum to exactly 1.
C27_TotalsSumToExactlyOne ==
    Scored => DAdd(route.scores.ga4_api, route.scores.bigquery) = One

====
